---- MODULE Spec2Model ----
(***************************************************************************)
(* Scheduled alerting and reminder engine of ring-camera-server.           *)
(*                                                                         *)
(* The model follows the source: the shared JSON configuration             *)
(* (services/config), the motion alert service (AlertsService) and the     *)
(* reminder timers of the Telegram service (TelegramService).              *)
(*                                                                         *)
(* Time is the value of Date.now() in milliseconds.  The clock advances    *)
(* in whole minutes, so every comparison the code makes in milliseconds    *)
(* is written as the code writes it.  A handler runs atomically between    *)
(* two awaits of an external call (snapshot, vision query, dynamic         *)
(* import, Telegram send); other handlers, timers and the clock may act    *)
(* at each such await.                                                     *)
(***************************************************************************)
EXTENDS Integers, Sequences, FiniteSets, TLC

VARIABLES
    now,                \* Date.now()
    running,            \* the node process is up
    currentConfig,      \* config module: let currentConfig
    disk,               \* content of config.json
    tmpFile,            \* content of config.json.tmp
    savePc,             \* the step a saveConfigToDisk in progress is at
    motionStates,       \* AlertsService.motionStates
    isInitialized,      \* AlertsService.isInitialized
    initCalls,          \* calls of AlertsService.initialize suspended at await getCameras()
    subscriptions,      \* per camera, the subscribers of camera.onNewDing
    ding,               \* the motion event being emitted, and the subscribers still to call
    hs,                 \* invocations of AlertsService.handleMotionEvent
    evt,                \* number of motion events delivered so far
    fired,              \* history: per rule, the calls of triggerAlert and the time of the last
    heap,               \* Reminder objects, by reference
    reminders,          \* TelegramService.reminders (insertion ordered)
    reminderIntervals,  \* TelegramService.reminderIntervals
    timers,             \* armed setInterval timers
    inflight,           \* reminder ticks suspended at an await
    menuStates,         \* TelegramService.menuStates
    sent                \* history: what the last handler step asked the bot to send

vars == <<now, running, currentConfig, disk, tmpFile, savePc, motionStates,
          isInitialized, initCalls, subscriptions, ding, hs, evt, fired, heap,
          reminders, reminderIntervals, timers, inflight, menuStates, sent>>

alertVars == <<motionStates, isInitialized, initCalls, subscriptions, ding, hs, evt, fired>>
reminderVars == <<reminders, reminderIntervals, timers, inflight>>

-----------------------------------------------------------------------------
(* Bounds of the model *)

MaxTicks == 2
MaxEvents == 3
MaxHandlers == 2
MaxReminders == 2
MaxRequests == 1

MsPerMinute == 60 * 1000
MsPerHour == 60 * MsPerMinute

Cameras == {"front", "back"}
Chats == {1, 2}
Intervals == {1}
Handlers == 1..MaxHandlers
StartHours == {2, 12, 23}
NoonHours == {12}

Min(S) == CHOOSE x \in S : \A y \in S : x <= y
Max(S) == CHOOSE x \in S : \A y \in S : x >= y

\* {...a, ...b}
Spread(a, b) == [k \in DOMAIN a \cup DOMAIN b |-> IF k \in DOMAIN b THEN b[k] ELSE a[k]]

-----------------------------------------------------------------------------
(* services/config *)

TokenKeys == {"ringRefreshToken", "openaiApiKey"}
ConfigKeys == {"ringRefreshToken", "openaiApiKey", "cameraName", "telegramReminders",
               "telegramAuthorizedUsers", "telegramPendingUsers", "requestHistory",
               "alertRules"}

\* JSON.stringify of the config: the reminder objects are written by value
Serialize(cfg, hp) ==
    [k \in DOMAIN cfg |->
        IF k = "telegramReminders"
        THEN [i \in DOMAIN cfg[k] |-> hp[cfg[k][i]]]
        ELSE cfg[k]]

\* the keys of partial that updateConfig copies into next
AppliedKeys(partial) ==
    {k \in DOMAIN partial \cap ConfigKeys : k \in TokenKeys => partial[k] # ""}

\* UpdateConfigNext with next = {} in place of next = { ...prev }
OnlyPartial(prev, partial) == [k \in AppliedKeys(partial) |-> partial[k]]

UpdateConfigNext(prev, partial) ==
    [k \in DOMAIN prev \cup AppliedKeys(partial) |->
        IF k \in AppliedKeys(partial) THEN partial[k] ELSE prev[k]]

\* rules.findIndex(rule => rule.id === id), 0 when there is none
FindIndex(rules, id) ==
    LET S == {i \in DOMAIN rules : rules[i].id = id}
    IN IF S = {} THEN 0 ELSE Min(S)

AlertRulesOf(cfg) == IF "alertRules" \in DOMAIN cfg THEN cfg.alertRules ELSE <<>>

\* ReplaceAt that puts the updated rule at the end of the list
MoveToEnd(rules, index, updatedRule) ==
    Append(SubSeq(rules, 1, index - 1) \o SubSeq(rules, index + 1, Len(rules)), updatedRule)

ReplaceAt(rules, index, updatedRule) ==
    [i \in DOMAIN rules |-> IF i = index THEN updatedRule ELSE rules[i]]

GetAlertRulesByCamera(cfg, cameraName) ==
    LET OfCamera(rule) == rule.cameraName = cameraName
    IN SelectSeq(AlertRulesOf(cfg), OfCamera)

\* the references of the heap are numbers; a new object takes a free one
MaxRef(hp) == IF DOMAIN hp = {} THEN 0 ELSE Max(DOMAIN hp)
NewRef(hp) == Min((1..(Cardinality(DOMAIN hp) + 1)) \ DOMAIN hp)
Put(hp, ref, obj) == [r \in DOMAIN hp \cup {ref} |-> IF r = ref THEN obj ELSE hp[r]]

\* The memory of the process and the file, as one value: the operations below
\* map a memory to the memory they leave.
Mem ==
    [hp |-> heap, cfg |-> currentConfig, dsk |-> disk, tmp |-> tmpFile,
     rems |-> reminders, ivs |-> reminderIntervals, tms |-> timers,
     menu |-> menuStates, out |-> {}]

\* a path without a file, and a file that holds the beginning of a document
NoFile == [ENOENT |-> TRUE]
Truncated == [SyntaxError |-> TRUE]

\* IsJson for a loader that takes whatever is at the path as a document
AnyFile(file) == TRUE

\* fs.readFileSync and JSON.parse return
IsJson(file) == file # NoFile /\ file # Truncated

\* loadConfigFromDisk: JSON.parse builds new objects; the catch returns {}
LoadConfigFromDisk(st) ==
    IF ~IsJson(st.dsk)
    THEN [st EXCEPT !.cfg = <<>>]
    ELSE IF "telegramReminders" \in DOMAIN st.dsk
    THEN LET stored == st.dsk.telegramReminders
             base == MaxRef(st.hp)
         IN [st EXCEPT
               !.hp = [r \in DOMAIN st.hp \cup {base + i : i \in DOMAIN stored} |->
                          IF r \in DOMAIN st.hp THEN st.hp[r] ELSE stored[r - base]],
               !.cfg = [k \in DOMAIN st.dsk |->
                          IF k = "telegramReminders"
                          THEN [i \in DOMAIN stored |-> base + i]
                          ELSE st.dsk[k]]]
    ELSE [st EXCEPT !.cfg = st.dsk]

\* getConfig: an empty cached config is read again from the disk
GetConfig(st) == IF DOMAIN st.cfg = {} THEN LoadConfigFromDisk(st) ELSE st

\* saveConfigToDisk: the temporary file is written and renamed
SaveConfigToDisk(st) == [st EXCEPT !.dsk = Serialize(st.cfg, st.hp), !.tmp = NoFile]

UpdateConfig(st, partial) ==
    LET s1 == GetConfig(st)
    IN SaveConfigToDisk([s1 EXCEPT !.cfg = UpdateConfigNext(s1.cfg, partial)])

UpdateAlertRule(st, id, updates) ==
    LET s1 == GetConfig(st)
        rules == AlertRulesOf(s1.cfg)
        index == FindIndex(rules, id)
    IN IF index # 0
       THEN UpdateConfig(s1,
                [alertRules |-> ReplaceAt(rules, index, Spread(rules[index], updates))])
       ELSE s1

\* the objects some variable of the process still refers to
LiveRefs(st, infl) ==
    {st.rems[i] : i \in DOMAIN st.rems}
      \cup (IF "telegramReminders" \in DOMAIN st.cfg
            THEN {st.cfg.telegramReminders[i] : i \in DOMAIN st.cfg.telegramReminders}
            ELSE {})
      \cup {t.ref : t \in st.tms}
      \cup {k.ref : k \in infl}

\* the memory st and the ticks infl become the state; objects nothing
\* refers to are collected
Commit(st, infl) ==
    /\ heap' = [r \in DOMAIN st.hp \cap LiveRefs(st, infl) |-> st.hp[r]]
    /\ currentConfig' = st.cfg
    /\ disk' = st.dsk
    /\ tmpFile' = st.tmp
    /\ savePc' = savePc
    /\ reminders' = st.rems
    /\ reminderIntervals' = st.ivs
    /\ timers' = st.tms
    /\ inflight' = infl
    /\ menuStates' = st.menu
    /\ sent' = st.out

-----------------------------------------------------------------------------
(* AlertsService *)

\* new Date().getHours() of the time t
GetHours(t) == (t \div MsPerHour) % 24

HasLastTriggered(rule) == "lastTriggered" \in DOMAIN rule /\ rule.lastTriggered # 0

\* InCooldown with the cooldown taken in milliseconds instead of minutes
InCooldownInMs(rule, t) ==
    /\ HasLastTriggered(rule)
    /\ (t - rule.lastTriggered) < rule.cooldownMinutes

\* evaluateRule: the cooldown check fails
InCooldown(rule, t) ==
    /\ HasLastTriggered(rule)
    /\ (t - rule.lastTriggered) < (rule.cooldownMinutes * 60 * 1000)

\* OutsideActiveHours with both bounds of the window left out
OutsideOpenHours(rule, currentHour) ==
    currentHour <= rule.activeHours.start \/ currentHour >= rule.activeHours.end

\* evaluateRule: the active hours check fails
OutsideActiveHours(rule, currentHour) ==
    currentHour < rule.activeHours.start \/ currentHour > rule.activeHours.end

\* evaluateRule: the idle threshold check fails
IdleTooShort(rule, cameraName, t, ms) ==
    /\ cameraName \in DOMAIN ms
    /\ (t - ms[cameraName].lastMotion) < (rule.idleThresholdMinutes * 60 * 1000)

\* PassesLocalChecks that lets every rule through to the AI criteria
SkipsLocalChecks(rule, cameraName, t, ms) == TRUE

\* evaluateRule up to the AI criteria
PassesLocalChecks(rule, cameraName, t, ms) ==
    /\ ~InCooldown(rule, t)
    /\ ~OutsideActiveHours(rule, GetHours(t))
    /\ ~IdleTooShort(rule, cameraName, t, ms)

\* rule.aiCriteria?.enabled && rule.aiCriteria.prompt
NeedsAi(rule) ==
    /\ "aiCriteria" \in DOMAIN rule
    /\ rule.aiCriteria.enabled
    /\ rule.aiCriteria.prompt # ""

\* SkipsRule without the test of rule.enabled
SkipsNoRule(rule) == FALSE

\* handleMotionEvent: if (!rule.enabled) continue
SkipsRule(rule) == ~rule.enabled

positiveKeywords == {"yes", "true", "detected", "present", "awake", "active"}

\* the answers of the vision model, as lower case words
Answers == {<<"yes">>, <<"no">>, <<"nothing", "detected">>}

IsPositive(aiResult) == \E i \in DOMAIN aiResult : aiResult[i] \in positiveKeywords

\* hadPrior (history): a motion event had been handled on the camera before;
\* failed (history): the positions of the rules whose evaluation or firing
\* ended in a catch block during this invocation
IdleHandler ==
    [pc |-> "idle", cam |-> "", rules |-> <<>>, idx |-> 0, hadPrior |-> FALSE, failed |-> {}]

\* the invocation after the catch block of the rule it is at was entered
Caught(hrec) == [hrec EXCEPT !.failed = @ \cup {hrec.idx}]

\* AfterCatch for an exception that leaves the for loop of handleMotionEvent
LeavesLoop(hrec) == Len(hrec.rules) + 1

\* evaluateRule and triggerAlert return from their catch blocks, and the for
\* loop of handleMotionEvent goes on with the next rule
AfterCatch(hrec) == hrec.idx + 1

\* the first rule from position i on that is enabled and passes the local
\* checks at time t; Len(rules) + 1 when the loop runs to its end
FirstCandidate(rules, i, cameraName, t, ms) ==
    LET S == {j \in i..Len(rules) :
                 ~SkipsRule(rules[j]) /\ PassesLocalChecks(rules[j], cameraName, t, ms)}
    IN IF S = {} THEN Len(rules) + 1 ELSE Min(S)

\* triggerAlert up to its first await: updateAlertRule(rule.id, {lastTriggered: Date.now()})
TriggerAlert(h, hrec, j, st) ==
    LET rule == hrec.rules[j]
    IN /\ Commit(UpdateAlertRule(st, rule.id, [lastTriggered |-> now]), inflight)
       /\ fired' = [fired EXCEPT ![rule.id] = [n |-> @.n + 1, at |-> now]]
       /\ hs' = [hs EXCEPT ![h] = [hrec EXCEPT !.pc = "snapshot", !.idx = j]]

\* the for loop of handleMotionEvent from rule i on, up to the next await
Proceed(h, hrec, i, st, ms) ==
    LET j == FirstCandidate(hrec.rules, i, hrec.cam, now, ms)
    IN IF j > Len(hrec.rules)
       THEN /\ hs' = [hs EXCEPT ![h] = IdleHandler]
            /\ Commit(st, inflight)
            /\ UNCHANGED fired
       ELSE IF NeedsAi(hrec.rules[j])
       THEN /\ hs' = [hs EXCEPT ![h] = [hrec EXCEPT !.pc = "aiSnapshot", !.idx = j]]
            /\ Commit(st, inflight)
            /\ UNCHANGED fired
       ELSE TriggerAlert(h, hrec, j, st)

\* no camera has a subscriber of onNewDing
NoSubscriptions == [c \in Cameras |-> 0]

\* no motion event is being emitted
NoDing == [cam |-> "", left |-> 0]

\* for (const camera of cameras): the motion state is set and a callback is
\* subscribed to camera.onNewDing
Subscribe(subs) == [c \in Cameras |-> subs[c] + 1]

\* initialize() called while no other call of it is suspended: the motion
\* state of every camera, and the subscriptions; ok: getCameras() returned
Initialize(ok) ==
    /\ running
    /\ ~isInitialized
    /\ initCalls = 0
    /\ LET st == GetConfig(Mem)
       IN /\ Commit(st, inflight)
          /\ IF "ringRefreshToken" \in DOMAIN st.cfg /\ st.cfg.ringRefreshToken # "" /\ ok
             THEN /\ motionStates' =
                        [c \in Cameras |->
                            [cameraName |-> c, lastMotion |-> now, isActive |-> FALSE]]
                  /\ subscriptions' = Subscribe(subscriptions)
                  /\ isInitialized' = TRUE
             ELSE UNCHANGED <<motionStates, subscriptions, isInitialized>>
    /\ UNCHANGED <<now, running, initCalls, ding, hs, evt, fired>>

\* the callback subscribed to camera.onNewDing is called: handleMotionEvent
\* up to its first await
OnNewDing(h, cameraName) ==
    /\ running
    /\ cameraName \in DOMAIN motionStates
    /\ hs[h].pc = "idle"
    /\ \A g \in Handlers : hs[g].pc = "idle" => h <= g
    /\ evt < MaxEvents
    /\ LET ms == [motionStates EXCEPT ![cameraName].lastMotion = now,
                                      ![cameraName].isActive = TRUE]
           st == GetConfig(Mem)
           hrec == [pc |-> "start", cam |-> cameraName,
                    rules |-> GetAlertRulesByCamera(st.cfg, cameraName),
                    idx |-> 0, hadPrior |-> motionStates[cameraName].isActive,
                    failed |-> {}]
       IN /\ motionStates' = ms
          /\ evt' = evt + 1
          /\ Proceed(h, hrec, 1, st, ms)
    /\ UNCHANGED <<now, running, isInitialized, initCalls, subscriptions>>

\* a ding of a camera with one subscriber
HandleMotionEvent(h, cameraName) ==
    /\ OnNewDing(h, cameraName)
    /\ UNCHANGED ding

\* the same, when no other invocation is suspended
HandleMotionEventSerial(h, cameraName) ==
    /\ \A g \in Handlers : hs[g].pc = "idle"
    /\ HandleMotionEvent(h, cameraName)

\* evaluateRule: await getSnapshotBase64(cameraName) returns or throws
AiSnapshot(h, ok) ==
    /\ running
    /\ hs[h].pc = "aiSnapshot"
    /\ IF ok
       THEN /\ hs' = [hs EXCEPT ![h].pc = "aiAnalyze"]
            /\ UNCHANGED <<currentConfig, disk, tmpFile, savePc, menuStates, sent, heap, fired>>
            /\ UNCHANGED reminderVars
       ELSE Proceed(h, Caught(hs[h]), AfterCatch(hs[h]), Mem, motionStates)
    /\ UNCHANGED <<now, running, motionStates, isInitialized, initCalls, subscriptions, ding, evt>>

\* evaluateRule: await analyzeImage(snapshot, prompt) returns an answer
AiAnalyzeAnswer(h, aiResult) ==
    /\ running
    /\ hs[h].pc = "aiAnalyze"
    /\ IF IsPositive(aiResult)
       THEN TriggerAlert(h, hs[h], hs[h].idx, Mem)
       ELSE Proceed(h, hs[h], hs[h].idx + 1, Mem, motionStates)
    /\ UNCHANGED <<now, running, motionStates, isInitialized, initCalls, subscriptions, ding, evt>>

\* AiAnalyzeFails with the failure of the vision query taken as a pass
AiAnalyzeFailsOpen(h) ==
    /\ running
    /\ hs[h].pc = "aiAnalyze"
    /\ TriggerAlert(h, hs[h], hs[h].idx, Mem)
    /\ UNCHANGED <<now, running, motionStates, isInitialized, initCalls, subscriptions, ding, evt>>

\* evaluateRule: await analyzeImage(snapshot, prompt) throws
AiAnalyzeFails(h) ==
    /\ running
    /\ hs[h].pc = "aiAnalyze"
    /\ Proceed(h, Caught(hs[h]), AfterCatch(hs[h]), Mem, motionStates)
    /\ UNCHANGED <<now, running, motionStates, isInitialized, initCalls, subscriptions, ding, evt>>

\* triggerAlert: await getSnapshotBase64(cameraName) returns or throws
TriggerSnapshot(h, ok) ==
    /\ running
    /\ hs[h].pc = "snapshot"
    /\ IF ok
       THEN /\ hs' = [hs EXCEPT ![h].pc = "import"]
            /\ UNCHANGED <<currentConfig, disk, tmpFile, savePc, menuStates, sent, heap, fired>>
            /\ UNCHANGED reminderVars
       ELSE Proceed(h, Caught(hs[h]), AfterCatch(hs[h]), Mem, motionStates)
    /\ UNCHANGED <<now, running, motionStates, isInitialized, initCalls, subscriptions, ding, evt>>

\* triggerAlert: await import('./telegram.js') returns; the module exports
\* no class TelegramService, so new TelegramService() throws and the catch
\* of triggerAlert ends the alert before anything is sent
TriggerImport(h) ==
    /\ running
    /\ hs[h].pc = "import"
    /\ Proceed(h, Caught(hs[h]), AfterCatch(hs[h]), Mem, motionStates)
    /\ UNCHANGED <<now, running, motionStates, isInitialized, initCalls, subscriptions, ding, evt>>

\* a minute passes
Tick ==
    /\ (now % MsPerHour) < MaxTicks * MsPerMinute
    /\ now' = now + MsPerMinute
    /\ UNCHANGED <<running, currentConfig, disk, tmpFile, savePc, menuStates, sent, heap>>
    /\ UNCHANGED alertVars
    /\ UNCHANGED reminderVars

-----------------------------------------------------------------------------
(* The alert rules the model starts with *)

AlertRule(id, cameraName, enabled, idle, start, end, cooldown) ==
    [id |-> id, cameraName |-> cameraName, enabled |-> enabled,
     idleThresholdMinutes |-> idle, activeHours |-> [start |-> start, end |-> end],
     cooldownMinutes |-> cooldown]

WithAi(rule, prompt) == Spread(rule, [aiCriteria |-> [enabled |-> TRUE, prompt |-> prompt]])

RuleIds == {"r1", "r2"}

Cooldown2(id, cameraName) == AlertRule(id, cameraName, TRUE, 0, 0, 23, 2)
AiCooldown2(id, cameraName) == WithAi(Cooldown2(id, cameraName), "Is someone there?")
AiNoPrompt(id, cameraName) == WithAi(Cooldown2(id, cameraName), "")
Idle1(id, cameraName) == AlertRule(id, cameraName, TRUE, 1, 0, 23, 0)
Night(id, cameraName) == AlertRule(id, cameraName, TRUE, 0, 22, 6, 0)
Office(id, cameraName) == AlertRule(id, cameraName, TRUE, 0, 9, 17, 1)
Disabled(id, cameraName) == AlertRule(id, cameraName, FALSE, 0, 0, 23, 0)

RuleLists ==
    { <<Cooldown2("r1", "front")>>,
      <<AiCooldown2("r1", "front")>>,
      <<Idle1("r1", "front")>>,
      <<Night("r1", "front")>>,
      <<Office("r1", "front")>>,
      <<Disabled("r1", "front")>>,
      <<AiCooldown2("r1", "front"), Idle1("r2", "front")>>,
      <<Disabled("r1", "front"), Cooldown2("r2", "front")>>,
      <<Cooldown2("r1", "front"), AiCooldown2("r2", "back")>>,
      <<AiCooldown2("r1", "front"), Cooldown2("r2", "front")>>,
      <<AiNoPrompt("r1", "front")>> }

\* the process starts in any of the start hours when a rule of the list has a
\* window of active hours, and at noon otherwise
StartHoursOf(rules) ==
    IF \E i \in DOMAIN rules :
          rules[i].activeHours.start # 0 \/ rules[i].activeHours.end # 23
    THEN StartHours ELSE NoonHours

AlertInit ==
    /\ running = TRUE
    /\ \E rules \in RuleLists :
          /\ now \in {h * MsPerHour : h \in StartHoursOf(rules)}
          /\ currentConfig = [ringRefreshToken |-> "token", alertRules |-> rules]
          /\ disk = [ringRefreshToken |-> "token", alertRules |-> rules]
    /\ tmpFile = NoFile
    /\ savePc = "none"
    /\ menuStates = <<>>
    /\ sent = {}
    /\ motionStates = <<>>
    /\ isInitialized = FALSE
    /\ initCalls = 0
    /\ subscriptions = NoSubscriptions
    /\ ding = NoDing
    /\ hs = [h \in Handlers |-> IdleHandler]
    /\ evt = 0
    /\ fired = [r \in RuleIds |-> [n |-> 0, at |-> 0]]
    /\ heap = <<>>
    /\ reminders = <<>>
    /\ reminderIntervals = <<>>
    /\ timers = {}
    /\ inflight = {}

AlertSteps ==
    \/ \E ok \in BOOLEAN : Initialize(ok)
    \/ \E h \in Handlers, ok \in BOOLEAN : AiSnapshot(h, ok)
    \/ \E h \in Handlers, aiResult \in Answers : AiAnalyzeAnswer(h, aiResult)
    \/ \E h \in Handlers : AiAnalyzeFails(h)
    \/ \E h \in Handlers, ok \in BOOLEAN : TriggerSnapshot(h, ok)
    \/ \E h \in Handlers : TriggerImport(h)
    \/ Tick

AlertNext ==
    \/ AlertSteps
    \/ \E h \in Handlers, c \in Cameras : HandleMotionEvent(h, c)

SerialNext ==
    \/ AlertSteps
    \/ \E h \in Handlers, c \in Cameras : HandleMotionEventSerial(h, c)

AlertSpec == AlertInit /\ [][AlertNext]_vars
SerialSpec == AlertInit /\ [][SerialNext]_vars

-----------------------------------------------------------------------------
(* Properties of the alert service *)

HasRule(id) == FindIndex(AlertRulesOf(currentConfig), id) # 0
RuleIn(cfg, id) == AlertRulesOf(cfg)[FindIndex(AlertRulesOf(cfg), id)]
RuleById(id) == RuleIn(currentConfig, id)
CooldownMs(id) == RuleById(id).cooldownMinutes * MsPerMinute
LastTriggeredOf(rule) == IF "lastTriggered" \in DOMAIN rule THEN rule.lastTriggered ELSE 0
AllIdle == \A h \in Handlers : hs[h].pc = "idle"

\* a step in which triggerAlert is called for rule id
Fires(id) == fired'[id].n = fired[id].n + 1

\* C1: when every motion event is handled to its end before the next one
\* arrives, a rule that fired at time T with cooldownMinutes = M does not fire
\* again before T + M.
C1_CooldownSpacing ==
    [][\A id \in RuleIds :
          (Fires(id) /\ fired[id].n > 0)
              => fired'[id].at >= fired[id].at + CooldownMs(id)]_vars

\* C1, witness: three events were handled, the rule with a cooldown of two
\* minutes fired on the first, not on the second, and again on the third.
C1_Witness ==
    /\ AllIdle
    /\ evt = 3
    /\ \E id \in RuleIds :
          HasRule(id) /\ RuleById(id).cooldownMinutes = 2 /\ fired[id].n = 2

\* C2: overlapping handlers of one camera are serialized per rule: the handler
\* that fires a rule has seen the lastTriggered the configuration holds for it,
\* and so a rule never fires twice within its cooldown.
C2_SerializedFiring ==
    [][\A h \in Handlers :
          (hs'[h].pc = "snapshot" /\ hs'[h] # hs[h])
              => LET rule == hs'[h].rules[hs'[h].idx]
                 IN /\ LastTriggeredOf(rule) = LastTriggeredOf(RuleById(rule.id))
                    /\ fired[rule.id].n > 0
                          => now >= fired[rule.id].at + CooldownMs(rule.id)]_vars

\* C3: a rule with idleThresholdMinutes = N > 0, no AI criteria, active hours
\* covering the day and no cooldown in effect fires on a motion event that
\* arrives at least N minutes after the previous motion event of its camera.
\* Stated for the rule the handler evaluates first, at the arrival of the event.
C3_FiresAfterIdleGap ==
    [][\A c \in DOMAIN motionStates :
          LET rules == GetAlertRulesByCamera(currentConfig, c)
          IN (/\ evt' = evt + 1
              /\ motionStates'[c] # motionStates[c]
              /\ motionStates[c].isActive
              /\ rules # <<>>
              /\ rules[1].enabled
              /\ ~NeedsAi(rules[1])
              /\ rules[1].activeHours = [start |-> 0, end |-> 23]
              /\ rules[1].idleThresholdMinutes > 0
              /\ now - motionStates[c].lastMotion
                    >= rules[1].idleThresholdMinutes * MsPerMinute
              /\ ~InCooldown(rules[1], now))
             => Fires(rules[1].id)]_vars

\* C4: a motion event on a camera with no earlier motion event never fires a
\* rule whose idleThresholdMinutes is positive.
C4_NoFireWithoutHistory ==
    \A h \in Handlers :
       (hs[h].pc \in {"snapshot", "import"} /\ ~hs[h].hadPrior)
           => hs[h].rules[hs[h].idx].idleThresholdMinutes = 0

\* C5: for a rule whose active hours wrap past midnight (start > end) the
\* active hours check passes exactly when hour >= start or hour <= end: with
\* start 22 and end 6 it passes at 23 and at 2 and fails at 12.
C5_WrappedActiveHours ==
    \A i \in DOMAIN AlertRulesOf(currentConfig) :
       LET rule == AlertRulesOf(currentConfig)[i]
           hour == GetHours(now)
       IN rule.activeHours.start > rule.activeHours.end
             => (~OutsideActiveHours(rule, hour)
                    <=> (hour >= rule.activeHours.start \/ hour <= rule.activeHours.end))

\* C6: a rule with enabled = false never fires, and no motion event changes
\* its lastTriggered, whatever its other fields, the hour and the motion
\* history are.
C6_DisabledRuleInert ==
    [][\A id \in RuleIds :
          (HasRule(id) /\ ~RuleById(id).enabled)
              => /\ fired'[id] = fired[id]
                 /\ RuleById(id)' = RuleById(id)]_vars

\* C6, witness: a motion event of the camera of a disabled rule was handled
\* to its end, at an hour in the rule's window, and the rule has not fired.
C6_Witness ==
    /\ AllIdle
    /\ evt > 0
    /\ \E id \in RuleIds :
          /\ HasRule(id)
          /\ ~RuleById(id).enabled
          /\ RuleById(id).cameraName \in DOMAIN motionStates
          /\ motionStates[RuleById(id).cameraName].isActive
          /\ PassesLocalChecks(RuleById(id), RuleById(id).cameraName, now + MsPerMinute,
                               motionStates)
          /\ fired[id].n = 0

\* C7: when the snapshot of a firing fails, the rule's lastTriggered keeps the
\* value it had before the firing.
C7_FailedFiringKeepsLastTriggered ==
    [][\A h \in Handlers :
          (hs[h].pc = "snapshot" /\ hs'[h] # hs[h] /\ hs'[h].pc # "import")
              => LastTriggeredOf(RuleIn(currentConfig', hs[h].rules[hs[h].idx].id))
                    = LastTriggeredOf(hs[h].rules[hs[h].idx])]_vars

-----------------------------------------------------------------------------
(* TelegramService: reminders *)

\* the Map and the timer table as functions
Remove(f, key) == [x \in DOMAIN f \ {key} |-> f[x]]

\* `${chatId}_${Date.now()}`
ReminderId(chatId, t) == <<chatId, t>>

\* a Reminder object; the camera name plays no part in the timers and is left out
Reminder(chatId, interval, lastRun, createdAt) ==
    [id |-> ReminderId(chatId, createdAt), chatId |-> chatId, interval |-> interval,
     lastRun |-> lastRun, isActive |-> TRUE]

\* config.telegramAuthorizedUsers?.includes(userId) || false
IsUserAuthorized(st, userId) ==
    LET cfg == GetConfig(st).cfg
    IN /\ "telegramAuthorizedUsers" \in DOMAIN cfg
       /\ \E i \in DOMAIN cfg.telegramAuthorizedUsers : cfg.telegramAuthorizedUsers[i] = userId

RequestHistoryOf(cfg) == IF "requestHistory" \in DOMAIN cfg THEN cfg.requestHistory ELSE <<>>

HistoryLimit == 1000

\* AddRequestHistory that puts the new entry behind the stored ones
AddRequestHistoryLast(st, entry) ==
    LET s1 == GetConfig(st)
        historyEntry == Spread(entry, [timestamp |-> now])
        all == RequestHistoryOf(s1.cfg) \o <<historyEntry>>
    IN UpdateConfig(s1, [requestHistory |-> SubSeq(all, 1, Min({HistoryLimit, Len(all)}))])

\* addRequestHistory: the entry goes first and the list is cut at 1000; the
\* random part of the entry's id is left out
AddRequestHistory(st, entry) ==
    LET s1 == GetConfig(st)
        historyEntry == Spread(entry, [timestamp |-> now])
        all == <<historyEntry>> \o RequestHistoryOf(s1.cfg)
    IN UpdateConfig(s1, [requestHistory |-> SubSeq(all, 1, Min({HistoryLimit, Len(all)}))])

\* trackRequest(menuState.user.id, menuState.user, action, ...)
TrackRequest(st, userId, action) == AddRequestHistory(st, [userId |-> userId, action |-> action])

\* this.reminders.get(id): the position of the entry in the Map, 0 for none
MapIndex(st, id) ==
    LET S == {i \in DOMAIN st.rems : st.hp[st.rems[i]].id = id}
    IN IF S = {} THEN 0 ELSE Min(S)

\* this.reminders.set(reminder.id, reminder)
MapSet(st, ref) ==
    LET i == MapIndex(st, st.hp[ref].id)
    IN [st EXCEPT !.rems = IF i = 0 THEN Append(@, ref) ELSE [@ EXCEPT ![i] = ref]]

\* MapDelete that leaves the entry in the Map
MapKeep(st, id) == st

\* this.reminders.delete(id)
MapDelete(st, id) ==
    LET Other(ref) == st.hp[ref].id # id
    IN [st EXCEPT !.rems = SelectSeq(@, Other)]

\* a Timeout object no table and no armed timer holds
NewHandle(st) ==
    LET used == {t.handle : t \in st.tms} \cup {st.ivs[k] : k \in DOMAIN st.ivs}
    IN Min((1..(Cardinality(used) + 1)) \ used)

ClearInterval(st, handle) == [st EXCEPT !.tms = {t \in @ : t.handle # handle}]

\* the timer table entry of id is cleared and deleted, when there is one
ClearIntervalOf(st, id) ==
    IF id \in DOMAIN st.ivs
    THEN [ClearInterval(st, st.ivs[id]) EXCEPT !.ivs = Remove(@, id)]
    ELSE st

\* SaveReminders that writes nothing
SkipSaveReminders(st) == st

\* saveReminders
SaveReminders(st) ==
    LET s1 == GetConfig(st)
    IN UpdateConfig(s1, Spread(s1.cfg, [telegramReminders |-> s1.rems]))

\* startReminder: setInterval(callback, intervalMs) and the entry of the timer table
StartReminder(st, ref) ==
    LET reminder == st.hp[ref]
        intervalMs == reminder.interval * 60 * 1000
        timeout == [handle |-> NewHandle(st), ref |-> ref, due |-> now + intervalMs]
    IN [st EXCEPT !.tms = @ \cup {timeout},
                  !.ivs = Put(@, reminder.id, timeout.handle)]

\* cleanupReminder
CleanupReminder(st, reminderId) ==
    LET s1 == ClearIntervalOf(st, reminderId)
        i == MapIndex(s1, reminderId)
    IN IF i # 0
       THEN SaveReminders(MapDelete([s1 EXCEPT !.hp[s1.rems[i]].isActive = FALSE], reminderId))
       ELSE s1

\* stopReminder, after the reminder was found
StopReminder(st, reminderId) ==
    LET i == MapIndex(st, reminderId)
        s1 == MapDelete([st EXCEPT !.hp[st.rems[i]].isActive = FALSE], reminderId)
    IN SaveReminders(ClearIntervalOf(s1, reminderId))

\* ShouldLoad without the test of isActive
ShouldLoadAny(reminder) == TRUE

\* loadReminders: if (reminder.isActive)
ShouldLoad(reminder) == reminder.isActive

\* loadReminders: the forEach from position i on
RECURSIVE LoadEach(_, _, _)
LoadEach(st, list, i) ==
    IF i > Len(list) THEN st
    ELSE IF ShouldLoad(st.hp[list[i]])
    THEN LoadEach(StartReminder(MapSet(st, list[i]), list[i]), list, i + 1)
    ELSE LoadEach(st, list, i + 1)

LoadReminders(st) ==
    LET s1 == GetConfig(st)
    IN IF "telegramReminders" \in DOMAIN s1.cfg
       THEN LoadEach(s1, s1.cfg.telegramReminders, 1)
       ELSE s1

\* the memory of a process that was just started
FreshMem ==
    [hp |-> <<>>, cfg |-> <<>>, dsk |-> disk, tmp |-> tmpFile,
     rems |-> <<>>, ivs |-> <<>>, tms |-> {}, menu |-> <<>>, out |-> {}]

\* the process starts: the module is loaded and the constructor runs loadReminders
Startup ==
    /\ ~running
    /\ running' = TRUE
    /\ Commit(LoadReminders(FreshMem), {})
    /\ UNCHANGED now
    /\ UNCHANGED alertVars

\* /remind <minutes> of an authorized sender in a private chat, up to its await
RemindCommand(chatId, intervalMinutes) ==
    /\ running
    /\ IsUserAuthorized(Mem, chatId)
    /\ ~(intervalMinutes < 1)
    /\ Cardinality(timers) < MaxReminders
    /\ LET st == GetConfig(Mem)
           ref == NewRef(st.hp)
           s1 == [st EXCEPT !.hp = Put(@, ref, Reminder(chatId, intervalMinutes, 0, now))]
       IN Commit(SaveReminders(StartReminder(MapSet(s1, ref), ref)), inflight)
    /\ UNCHANGED <<now, running>>
    /\ UNCHANGED alertVars

\* the reminder_camera_<interval>_<camera> button of an authorized sender:
\* createReminder up to its await
CreateReminder(chatId, interval) ==
    /\ running
    /\ IsUserAuthorized(Mem, chatId)
    /\ Cardinality(timers) < MaxReminders
    /\ Len(RequestHistoryOf(GetConfig(Mem).cfg)) < MaxRequests
    /\ LET st == GetConfig(Mem)
           ref == NewRef(st.hp)
           s1 == [st EXCEPT !.hp = Put(@, ref, Reminder(chatId, interval, now, now))]
           s2 == StartReminder(SaveReminders(MapSet(s1, ref)), ref)
       IN Commit(TrackRequest(s2, chatId, "Reminder Created"), inflight)
    /\ UNCHANGED <<now, running>>
    /\ UNCHANGED alertVars

\* NotFound without the test of the chat
NotInMap(st, chatId, reminderId) == MapIndex(st, reminderId) = 0

\* const reminder = this.reminders.get(reminderId);
\* !reminder || reminder.chatId !== chatId
NotFound(st, chatId, reminderId) ==
    \/ MapIndex(st, reminderId) = 0
    \/ st.hp[st.rems[MapIndex(st, reminderId)]].chatId # chatId

\* the /stop handler of an authorized sender, up to its await: a reminder that
\* is not found or not owned is answered with a message only
HandleStop(st, chatId, reminderId) ==
    IF NotFound(st, chatId, reminderId) THEN st ELSE CleanupReminder(st, reminderId)

\* stopReminder(chatId, reminderId) with trackRequest, up to its await
HandleStopButton(st, chatId, reminderId) ==
    IF NotFound(st, chatId, reminderId) THEN st
    ELSE TrackRequest(StopReminder(st, reminderId), chatId, "Reminder Stopped")

\* /stop <id> of an authorized sender, for a reminder of the chat
StopCommand(chatId, reminderId) ==
    /\ running
    /\ IsUserAuthorized(Mem, chatId)
    /\ ~NotFound(Mem, chatId, reminderId)
    /\ Commit(HandleStop(GetConfig(Mem), chatId, reminderId), inflight)
    /\ UNCHANGED <<now, running>>
    /\ UNCHANGED alertVars

\* the reminder_stop_<id> button of an authorized sender, for a reminder of the chat
StopButton(chatId, reminderId) ==
    /\ running
    /\ IsUserAuthorized(Mem, chatId)
    /\ ~NotFound(Mem, chatId, reminderId)
    /\ Len(RequestHistoryOf(GetConfig(Mem).cfg)) < MaxRequests
    /\ Commit(HandleStopButton(GetConfig(Mem), chatId, reminderId), inflight)
    /\ UNCHANGED <<now, running>>
    /\ UNCHANGED alertVars

\* the callback of setInterval runs, up to its first await
TimerFire(t) ==
    /\ running
    /\ t \in timers
    /\ now >= t.due
    /\ LET reminder == heap[t.ref]
           next == [t EXCEPT !.due = now + reminder.interval * 60 * 1000]
           st == [Mem EXCEPT !.tms = (@ \ {t}) \cup {next}]
       IN IF ~reminder.isActive
          THEN Commit(ClearIntervalOf(st, reminder.id), inflight)
          ELSE Commit(st, inflight \cup {[ref |-> t.ref, stage |-> "snapshot", at |-> now]})
    /\ UNCHANGED <<now, running>>
    /\ UNCHANGED alertVars

\* a tick: await getSnapshotBase64(...) returns or throws
TickSnapshot(k, ok) ==
    /\ running
    /\ k \in inflight
    /\ k.stage = "snapshot"
    /\ inflight' = (inflight \ {k}) \cup {[k EXCEPT !.stage = IF ok THEN "send" ELSE "error"]}
    /\ UNCHANGED <<now, running, currentConfig, disk, tmpFile, savePc, menuStates, sent, heap, reminders, reminderIntervals, timers>>
    /\ UNCHANGED alertVars

\* CompleteTick that sets the reminder in the Map again
CompleteTickSets(st, ref) ==
    SaveReminders(MapSet([st EXCEPT !.hp[ref].lastRun = now], ref))

\* reminder.lastRun = Date.now(); this.saveReminders();
CompleteTick(st, ref) == SaveReminders([st EXCEPT !.hp[ref].lastRun = now])

\* a tick: await bot.sendPhoto(...) returns, lastRun is set and the reminders
\* are saved; or it throws
TickSendPhoto(k, ok) ==
    /\ running
    /\ k \in inflight
    /\ k.stage = "send"
    /\ IF ok
       THEN Commit(CompleteTick(GetConfig(Mem), k.ref), inflight \ {k})
       ELSE /\ inflight' = (inflight \ {k}) \cup {[k EXCEPT !.stage = "error"]}
            /\ UNCHANGED <<currentConfig, disk, tmpFile, savePc, menuStates, sent, heap, reminders, reminderIntervals, timers>>
    /\ UNCHANGED <<now, running>>
    /\ UNCHANGED alertVars

\* a tick: the await bot.sendMessage(...) of the catch block ends
TickSendError(k) ==
    /\ running
    /\ k \in inflight
    /\ k.stage = "error"
    /\ Commit(Mem, inflight \ {k})
    /\ UNCHANGED <<now, running>>
    /\ UNCHANGED alertVars

-----------------------------------------------------------------------------
(* The config files the reminder model starts with: no file, the file setup
   completion writes, and files with stored reminders of two chats, of which
   the user of chat 1 is authorized *)

StoredReminder(chatId, interval, isActive) ==
    [Reminder(chatId, interval, 0, 11 * MsPerHour) EXCEPT !.isActive = isActive]

Authorized == [telegramAuthorizedUsers |-> <<1>>]

DiskContents ==
    { <<>>,
      Spread(Authorized, [telegramReminders |-> <<>>]),
      Spread(Authorized, [telegramReminders |-> <<StoredReminder(1, 1, TRUE)>>]),
      Spread(Authorized, [telegramReminders |-> <<StoredReminder(2, 1, FALSE)>>]),
      Spread(Authorized, [telegramReminders |->
                             <<StoredReminder(1, 1, TRUE), StoredReminder(2, 1, FALSE)>>]),
      Spread(Authorized, [telegramReminders |->
                             <<StoredReminder(1, 1, TRUE), StoredReminder(2, 1, TRUE)>>]) }

ReminderInit ==
    /\ running = FALSE
    /\ now \in {h * MsPerHour : h \in NoonHours}
    /\ currentConfig = <<>>
    /\ disk \in DiskContents
    /\ tmpFile = NoFile
    /\ savePc = "none"
    /\ menuStates = <<>>
    /\ sent = {}
    /\ motionStates = <<>>
    /\ isInitialized = FALSE
    /\ initCalls = 0
    /\ subscriptions = NoSubscriptions
    /\ ding = NoDing
    /\ hs = [h \in Handlers |-> IdleHandler]
    /\ evt = 0
    /\ fired = [r \in RuleIds |-> [n |-> 0, at |-> 0]]
    /\ heap = <<>>
    /\ reminders = <<>>
    /\ reminderIntervals = <<>>
    /\ timers = {}
    /\ inflight = {}

\* the ids a stop request can name
KnownIds == {heap[r].id : r \in DOMAIN heap}

ReminderNext ==
    \/ Startup
    \/ \E chatId \in Chats, intervalMinutes \in {0} \cup Intervals :
          RemindCommand(chatId, intervalMinutes)
    \/ \E chatId \in Chats, interval \in Intervals : CreateReminder(chatId, interval)
    \/ \E chatId \in Chats, reminderId \in KnownIds : StopCommand(chatId, reminderId)
    \/ \E chatId \in Chats, reminderId \in KnownIds : StopButton(chatId, reminderId)
    \/ \E t \in timers : TimerFire(t)
    \/ \E k \in inflight, ok \in BOOLEAN : TickSnapshot(k, ok)
    \/ \E k \in inflight, ok \in BOOLEAN : TickSendPhoto(k, ok)
    \/ \E k \in inflight : TickSendError(k)
    \/ Tick

ReminderSpec == ReminderInit /\ [][ReminderNext]_vars

-----------------------------------------------------------------------------
(* Properties of the reminders *)

StoredReminders(dsk) ==
    IF "telegramReminders" \in DOMAIN dsk THEN dsk.telegramReminders ELSE <<>>

StoredActiveIds ==
    {StoredReminders(disk)[i].id :
        i \in {j \in DOMAIN StoredReminders(disk) : StoredReminders(disk)[j].isActive}}

ArmedIds == {heap[t.ref].id : t \in timers}

\* a step in which the tick k comes to its end
TickEnds(k) ==
    /\ k \in inflight
    /\ \A j \in inflight' : j.ref # k.ref \/ j.at # k.at

\* C8: when a tick of a reminder comes to its end, by success or by failure of
\* the snapshot or of the dispatch, the reminder's lastRun is a time of that tick
\* (not before its start) and the stored copy of the reminder holds it.
C8_TickSetsLastRunAndPersists ==
    [][\A k \in inflight :
          (TickEnds(k) /\ heap[k.ref].isActive /\ k.ref \in DOMAIN heap')
              => /\ heap'[k.ref].lastRun >= k.at
                 /\ \E i \in DOMAIN StoredReminders(disk') :
                       StoredReminders(disk')[i] = heap'[k.ref]]_vars

\* C9: the start of the process arms exactly one timer for every reminder
\* stored with isActive = true, none for a reminder stored with isActive =
\* false, and no other timer.
C9_StartupArmsStoredActive ==
    [][(~running /\ running')
          => LET stored == StoredReminders(disk)
             IN /\ \A i \in DOMAIN stored :
                      Cardinality({t \in timers' : heap'[t.ref].id = stored[i].id})
                          = IF stored[i].isActive THEN 1 ELSE 0
                /\ \A t \in timers' :
                      \E i \in DOMAIN stored :
                          stored[i].isActive /\ stored[i].id = heap'[t.ref].id]_vars

\* C9, witness: the process was started on a file that stores an active and an
\* inactive reminder, and the one timer armed is the active reminder's.
C9_Witness ==
    /\ running
    /\ \E i, j \in DOMAIN StoredReminders(disk) :
          /\ StoredReminders(disk)[i].isActive
          /\ ~StoredReminders(disk)[j].isActive
          /\ ArmedIds = {StoredReminders(disk)[i].id}
    /\ Cardinality(timers) = 1
    /\ Len(reminders) = 1

\* C10: when the process runs and no tick is in flight, the ids with an armed
\* timer are the ids stored with isActive = true.
C10_TimersMirrorStorage ==
    (running /\ inflight = {}) => ArmedIds = StoredActiveIds

-----------------------------------------------------------------------------
(* The setup endpoint of the HTTP server *)

\* the user ids a setup request names as admin
Admins == {1}

\* POST /api/setup/complete with all required fields: updateConfig(...) with
\* telegramReminders: []. The rewrite of the source file of the Telegram
\* service that follows acts on the next start only.
SetupComplete(adminUserId) ==
    /\ running
    /\ Commit(UpdateConfig(Mem, [ringRefreshToken |-> "token",
                                 openaiApiKey |-> "key",
                                 cameraName |-> "front",
                                 telegramAuthorizedUsers |-> <<adminUserId>>,
                                 telegramPendingUsers |-> <<>>,
                                 telegramReminders |-> <<>>]),
              inflight)
    /\ UNCHANGED <<now, running>>
    /\ UNCHANGED alertVars

\* the files the process is started on, when the setup endpoint is used
ClearDisks ==
    { Spread(Authorized, [telegramReminders |-> <<StoredReminder(1, 1, TRUE)>>]),
      Spread(Authorized, [telegramReminders |->
                             <<StoredReminder(1, 1, TRUE), StoredReminder(2, 1, TRUE)>>]) }

ClearInit == ReminderInit /\ disk \in ClearDisks

\* the start of the process, the timers and their ticks, and the clock
TickSteps ==
    \/ Startup
    \/ \E t \in timers : TimerFire(t)
    \/ \E k \in inflight, ok \in BOOLEAN : TickSnapshot(k, ok)
    \/ \E k \in inflight, ok \in BOOLEAN : TickSendPhoto(k, ok)
    \/ \E k \in inflight : TickSendError(k)
    \/ Tick

ClearNext ==
    \/ TickSteps
    \/ \E chatId \in Chats, reminderId \in KnownIds : StopCommand(chatId, reminderId)
    \/ \E adminUserId \in Admins : SetupComplete(adminUserId)

ClearSpec == ClearInit /\ [][ClearNext]_vars

\* a step of the setup endpoint that clears stored reminders the service holds
ClearsReminders ==
    /\ reminders # <<>>
    /\ reminders' = reminders
    /\ StoredReminders(disk) # <<>>
    /\ StoredReminders(disk') = <<>>

\* a step that creates a reminder arms a timer with a new Timeout
ArmsTimer == \E t \in timers' : \A u \in timers : u.handle # t.handle \/ u.ref # t.ref

\* C11: the setup endpoint's clear of the reminders leaves no timer armed, and
\* afterwards only the creation of a reminder puts a reminder into the stored
\* telegramReminders: no cleared reminder comes back or starts a tick.
C11_ClearDisarmsAndStaysCleared ==
    [][/\ ClearsReminders => (timers' = {} /\ reminders' = <<>>)
       /\ (running /\ "openaiApiKey" \in DOMAIN disk /\ StoredReminders(disk) = <<>>
             /\ ~ArmsTimer)
            => (StoredReminders(disk') = <<>> /\ inflight' \subseteq inflight)]_vars

-----------------------------------------------------------------------------
(* Properties of stopping a reminder *)

\* the ids of the reminders in the Map: a stop takes the id out, only the
\* creation of a reminder or the start of the process puts one in
MapIds == {heap[reminders[i]].id : i \in DOMAIN reminders}

\* the ticks a step starts
StartedTicks == {k \in inflight' : k \notin inflight /\ k.stage = "snapshot"}

\* C12: once the stop of a reminder id was requested, no tick of that id
\* starts: every tick that starts is the tick of an id the reminders map holds.
C12_NoTickAfterStop ==
    [][\A k \in StartedTicks : heap[k.ref].id \in MapIds]_vars

\* the /reminders command and the list button: the reminders of the Map with
\* r.chatId === chatId && r.isActive
ListReminders(st, chatId) ==
    LET Shown(ref) == st.hp[ref].chatId = chatId /\ st.hp[ref].isActive
    IN SelectSeq(st.rems, Shown)

\* the ids a list request of some chat shows
ListedIds ==
    UNION {{heap[ListReminders(Mem, c)[i]].id : i \in DOMAIN ListReminders(Mem, c)} :
              c \in Chats}

\* C13: the stop of a reminder takes its id out of the reminders listed for its
\* chat and out of the reminders stored as active, and an id that is neither
\* listed nor stored as active stays so until a reminder is created or loaded.
C13_StoppedStaysUnlisted ==
    [][\A id \in KnownIds \cup KnownIds' :
          /\ (id \in MapIds /\ id \notin MapIds')
                => (id \notin ListedIds' /\ id \notin StoredActiveIds')
          /\ (id \notin ListedIds /\ id \notin StoredActiveIds /\ ~ArmsTimer)
                => (id \notin ListedIds' /\ id \notin StoredActiveIds')]_vars

\* C13, witness: a reminder was stopped while its tick was in flight; the tick
\* is about to set lastRun and save the reminders, and the id is neither listed
\* nor stored as active.
C13_Witness ==
    /\ running
    /\ \E k \in inflight :
          /\ k.stage = "send"
          /\ ~heap[k.ref].isActive
          /\ heap[k.ref].id \notin ListedIds
          /\ heap[k.ref].id \notin StoredActiveIds

\* the ids of reminders that were stopped and are still referred to
StoppedIds == {heap[r].id : r \in {x \in DOMAIN heap : ~heap[x].isActive}} \ MapIds

\* C14: a second stop of a reminder, by the command or by the button, leaves
\* the memory (reminders map, timer table, timers) and the file as the first
\* stop left them, and a stop of an id that was already stopped changes nothing.
C14_StopTwiceIsStopOnce ==
    \A chatId \in Chats, id \in KnownIds :
       LET s0 == GetConfig(Mem)
           byCommand == HandleStop(s0, chatId, id)
           byButton == HandleStopButton(s0, chatId, id)
       IN /\ HandleStop(byCommand, chatId, id) = byCommand
          /\ HandleStopButton(byCommand, chatId, id) = byCommand
          /\ HandleStop(byButton, chatId, id) = byButton
          /\ HandleStopButton(byButton, chatId, id) = byButton
          /\ id \in StoppedIds => (byCommand = s0 /\ byButton = s0)

\* C14, witness: a reminder was stopped (a tick of it is still in flight, so
\* a second stop can name its id) while another reminder is armed and stored,
\* whose first stop changes the map, the timer table and the file.
C14_Witness ==
    /\ running
    /\ \E k \in inflight : ~heap[k.ref].isActive /\ heap[k.ref].id \in StoppedIds
    /\ \E chatId \in Chats, id \in MapIds :
          LET s0 == GetConfig(Mem)
              s1 == HandleStop(s0, chatId, id)
          IN s1.rems # s0.rems /\ s1.ivs # s0.ivs /\ s1.tms # s0.tms /\ s1.dsk # s0.dsk

-----------------------------------------------------------------------------
(* Failure of the error notice of a tick *)

\* a tick: the await bot.sendMessage(...) of the catch block rejects. Nothing
\* catches the rejection of the async callback of setInterval, and Node.js
\* (v20, as the README requires) ends the process on an unhandled rejection:
\* the memory of the process is lost, the file stays.
TickSendErrorFails(k) ==
    /\ running
    /\ k \in inflight
    /\ k.stage = "error"
    /\ running' = FALSE
    /\ currentConfig' = <<>>
    /\ heap' = <<>>
    /\ reminders' = <<>>
    /\ reminderIntervals' = <<>>
    /\ timers' = {}
    /\ inflight' = {}
    /\ motionStates' = <<>>
    /\ isInitialized' = FALSE
    /\ initCalls' = 0
    /\ subscriptions' = NoSubscriptions
    /\ ding' = NoDing
    /\ hs' = [h \in Handlers |-> IdleHandler]
    /\ menuStates' = <<>>
    /\ UNCHANGED <<now, disk, tmpFile, savePc, sent, evt, fired>>

\* the timers and their ticks with every outcome of the sends, the /stop
\* command, and the start of the process (again, by hand, after it ended)
FailureNext ==
    \/ TickSteps
    \/ \E k \in inflight : TickSendErrorFails(k)
    \/ \E chatId \in Chats, reminderId \in KnownIds : StopCommand(chatId, reminderId)

FailureSpec == ClearInit /\ [][FailureNext]_vars

\* the snapshot or the dispatch of the tick k fails in this step
TickFails(k) ==
    /\ k \in inflight
    /\ k.stage # "error"
    /\ k \notin inflight'
    /\ [k EXCEPT !.stage = "error"] \in inflight'

\* the failed tick k comes to its end in this step
FailedTickEnds(k) == k.stage = "error" /\ TickEnds(k)

\* C15: a tick of an active reminder that fails, at the failure and at its end,
\* leaves the process running with the reminder active, in the reminders map,
\* stored as active and with a timer armed; the failure is followed by the send
\* of the error notice (the stage "error" of the tick).
C15_FailedTickKeepsReminder ==
    [][\A k \in inflight :
          (/\ heap[k.ref].isActive
           /\ heap[k.ref].id \in MapIds
           /\ TickFails(k) \/ FailedTickEnds(k))
              => /\ running'
                 /\ k.ref \in DOMAIN heap'
                 /\ heap'[k.ref].isActive
                 /\ heap'[k.ref].id \in MapIds'
                 /\ heap'[k.ref].id \in StoredActiveIds'
                 /\ \E t \in timers' : t.ref = k.ref]_vars

-----------------------------------------------------------------------------
(* Liveness of the reminder timers *)

\* Node.js runs a due timer and every await comes to an end; the clock goes on
\* up to the last minute of the model. Nothing starts the process again by
\* itself once it ended.
FailureFairness ==
    /\ WF_vars(Tick)
    /\ \A handle \in 1..MaxReminders :
          WF_vars(\E t \in timers : t.handle = handle /\ TimerFire(t))
    /\ WF_vars(\E k \in inflight, ok \in BOOLEAN : TickSnapshot(k, ok))
    /\ WF_vars(\E k \in inflight, ok \in BOOLEAN : TickSendPhoto(k, ok))
    /\ WF_vars(\E k \in inflight : TickSendError(k) \/ TickSendErrorFails(k))

FailureLiveSpec == FailureSpec /\ FailureFairness

\* the ids of the reminders of ClearDisks and the minutes of the model's clock
StoredIds == {ReminderId(chatId, 11 * MsPerHour) : chatId \in Chats}
Minutes == {h * MsPerHour + i * MsPerMinute : h \in NoonHours, i \in 0..MaxTicks}
LastMinute == Max(Minutes)

\* at time t the reminder id is held as active by a process that ran or runs,
\* and its next tick is due within the minutes of the model
AwaitsTick(id, t) ==
    /\ now = t
    /\ running
    /\ \E i \in DOMAIN reminders :
          /\ heap[reminders[i]].id = id
          /\ heap[reminders[i]].isActive
          /\ t + heap[reminders[i]].interval * MsPerMinute <= LastMinute

\* a tick of the reminder id started after time t
TickedAfter(id, t) == \E k \in inflight : heap[k.ref].id = id /\ k.at > t

\* the reminder id is armed by a running process for a minute after the last
\* one of the model
ArmedBeyond(id) ==
    /\ running
    /\ \E t \in timers :
          heap[t.ref].id = id /\ heap[t.ref].isActive /\ t.due > LastMinute

\* C16: with fair timers, a reminder that a running process holds as active
\* (loaded at a start, with any lastRun) gets another tick later on, whether its
\* ticks succeed or fail, unless it is stopped. A reminder armed again for a
\* minute the model's clock does not reach counts as served.
C16_ActiveReminderKeepsFiring ==
    \A id \in StoredIds : \A t \in Minutes :
       AwaitsTick(id, t)
          ~> (TickedAfter(id, t) \/ id \notin StoredActiveIds \/ ArmedBeyond(id))

-----------------------------------------------------------------------------
(* The AI gate of the alert rules *)

\* the rule the invocation h is at
RuleAt(h) == hs[h].rules[hs[h].idx]

\* the snapshot or the vision query of the AI gate of invocation h fails
AiGateFails(h) == AiSnapshot(h, FALSE) \/ AiAnalyzeFails(h)

\* C17: when the snapshot or the vision query of the AI gate of a rule fails,
\* the rule does not fire for that motion event (the invocation is past the
\* rule without a call of triggerAlert for it) and its lastTriggered, in
\* memory and on disk, is what it was.
C17_AiFailureIsNoFire ==
    [][\A h \in Handlers :
          AiGateFails(h)
              => /\ ~Fires(RuleAt(h).id)
                 /\ hs'[h].pc = "idle" \/ hs'[h].idx > hs[h].idx
                 /\ RuleIn(currentConfig', RuleAt(h).id) = RuleIn(currentConfig, RuleAt(h).id)
                 /\ RuleIn(disk', RuleAt(h).id) = RuleIn(disk, RuleAt(h).id)]_vars

\* C17, witness: the AI gate of the first rule failed, the rule has never fired
\* and has no lastTriggered, and the invocation is firing the second rule.
C17_Witness ==
    \E h \in Handlers :
       /\ hs[h].pc = "snapshot"
       /\ hs[h].idx = 2
       /\ hs[h].failed = {1}
       /\ NeedsAi(hs[h].rules[1])
       /\ fired[hs[h].rules[1].id].n = 0
       /\ ~HasLastTriggered(RuleById(hs[h].rules[1].id))

-----------------------------------------------------------------------------
(* Failures while a rule is evaluated or fired *)

\* the evaluation or the firing of the rule the invocation h is at ends in a
\* catch block: AI gate, snapshot of the alert, dispatch of the alert
RuleFails(h) == AiGateFails(h) \/ TriggerSnapshot(h, FALSE) \/ TriggerImport(h)

\* the invocation h' is at the first rule from position i on of its list that
\* is enabled and passes the local checks, or is over when there is none
EvaluatesFrom(h, rules, i, cameraName) ==
    LET j == FirstCandidate(rules, i, cameraName, now, motionStates')
    IN IF j > Len(rules)
       THEN hs'[h].pc = "idle"
       ELSE /\ hs'[h].rules = rules
            /\ hs'[h].idx = j
            /\ hs'[h].pc = IF NeedsAi(rules[j]) THEN "aiSnapshot" ELSE "snapshot"

-----------------------------------------------------------------------------
(* AI criteria and firing *)

\* rule.aiCriteria?.enabled
AiEnabled(rule) == "aiCriteria" \in DOMAIN rule /\ rule.aiCriteria.enabled

\* C19: a rule whose aiCriteria.enabled is true fires only when the invocation
\* that fires it received a positive answer of the vision model for this motion
\* event, whatever the prompt of the rule is: triggerAlert is entered for such
\* a rule only from the wait for the vision answer.
C19_AiRuleFiresOnlyOnPositive ==
    [][\A h \in Handlers :
          (hs'[h].pc = "snapshot" /\ hs'[h] # hs[h] /\ AiEnabled(hs'[h].rules[hs'[h].idx]))
              => /\ hs[h].pc = "aiAnalyze"
                 /\ hs[h].idx = hs'[h].idx
                 /\ \E aiResult \in Answers :
                       IsPositive(aiResult) /\ AiAnalyzeAnswer(h, aiResult)]_vars

-----------------------------------------------------------------------------
(* Access requests and approvals *)

\* getAuthorizedUsers(), getPendingUsers()
GetAuthorizedUsers(cfg) ==
    IF "telegramAuthorizedUsers" \in DOMAIN cfg THEN cfg.telegramAuthorizedUsers ELSE <<>>
GetPendingUsers(cfg) ==
    IF "telegramPendingUsers" \in DOMAIN cfg THEN cfg.telegramPendingUsers ELSE <<>>

Includes(list, x) == \E i \in DOMAIN list : list[i] = x
IsPending(cfg, userId) == \E i \in DOMAIN GetPendingUsers(cfg) : GetPendingUsers(cfg)[i].userId = userId

\* addAuthorizedUser: updateConfig({ ...config, telegramAuthorizedUsers })
AddAuthorizedUser(st, userId) ==
    LET s1 == GetConfig(st)
        authorizedUsers == GetAuthorizedUsers(s1.cfg)
    IN IF Includes(authorizedUsers, userId) THEN s1
       ELSE UpdateConfig(s1, Spread(s1.cfg,
                [telegramAuthorizedUsers |-> Append(authorizedUsers, userId)]))

\* addPendingUser; the names of the user are left out
AddPendingUser(st, userId) ==
    LET s1 == GetConfig(st)
        pendingUsers == GetPendingUsers(s1.cfg)
    IN IF IsPending(s1.cfg, userId) THEN s1
       ELSE UpdateConfig(s1, Spread(s1.cfg,
                [telegramPendingUsers |->
                    Append(pendingUsers, [userId |-> userId, requestTime |-> now])]))

\* RemovePendingUser that leaves the pending users as they are
KeepPendingUser(st, userId) == GetConfig(st)

\* removePendingUser
RemovePendingUser(st, userId) ==
    LET s1 == GetConfig(st)
        filteredUsers == SelectSeq(GetPendingUsers(s1.cfg), LAMBDA u : u.userId # userId)
    IN UpdateConfig(s1, Spread(s1.cfg, [telegramPendingUsers |-> filteredUsers]))

\* handleUnauthorizedUser up to its await: a message of a sender who is not
\* authorized
RequestAccess(userId) ==
    /\ running
    /\ ~IsUserAuthorized(Mem, userId)
    /\ ~IsPending(GetConfig(Mem).cfg, userId)
    /\ Commit(AddPendingUser(Mem, userId), inflight)
    /\ UNCHANGED <<now, running>>
    /\ UNCHANGED alertVars

\* approveUser up to its await, called for the admin
ApproveUser(targetUserId) ==
    /\ running
    /\ IsPending(GetConfig(Mem).cfg, targetUserId)
    /\ Commit(RemovePendingUser(AddAuthorizedUser(Mem, targetUserId), targetUserId), inflight)
    /\ UNCHANGED <<now, running>>
    /\ UNCHANGED alertVars

-----------------------------------------------------------------------------
(* Reminders, alerts, approvals and the request history on one config *)

SharedIntervals == {1, 2}
SharedEvents == 1
SharedRules == <<Cooldown2("r1", "front")>>

SharedInit ==
    /\ running = FALSE
    /\ now \in {h * MsPerHour : h \in NoonHours}
    /\ currentConfig = <<>>
    /\ disk = Spread(Authorized, [ringRefreshToken |-> "token", alertRules |-> SharedRules])
    /\ tmpFile = NoFile
    /\ savePc = "none"
    /\ menuStates = <<>>
    /\ sent = {}
    /\ motionStates = <<>>
    /\ isInitialized = FALSE
    /\ initCalls = 0
    /\ subscriptions = NoSubscriptions
    /\ ding = NoDing
    /\ hs = [h \in Handlers |-> IdleHandler]
    /\ evt = 0
    /\ fired = [r \in RuleIds |-> [n |-> 0, at |-> 0]]
    /\ heap = <<>>
    /\ reminders = <<>>
    /\ reminderIntervals = <<>>
    /\ timers = {}
    /\ inflight = {}

SharedNext ==
    \/ Startup
    \/ Initialize(TRUE)
    \/ \E h \in Handlers : evt < SharedEvents /\ HandleMotionEventSerial(h, "front")
    \/ \E h \in Handlers : TriggerSnapshot(h, FALSE)
    \/ \E chatId \in Chats, intervalMinutes \in SharedIntervals :
          RemindCommand(chatId, intervalMinutes)
    \/ \E chatId \in Chats, reminderId \in KnownIds : StopButton(chatId, reminderId)
    \/ \E t \in timers : TimerFire(t)
    \/ \E k \in inflight : TickSnapshot(k, TRUE)
    \/ \E k \in inflight : TickSendPhoto(k, TRUE)
    \/ \E userId \in Chats : RequestAccess(userId)
    \/ \E targetUserId \in Chats : ApproveUser(targetUserId)
    \/ Tick

SharedSpec == SharedInit /\ [][SharedNext]_vars

\* the stored collections of a config document
StoredHistory(dsk) == RequestHistoryOf(dsk)
StoredRules(dsk) == AlertRulesOf(dsk)
StoredIdsOf(dsk) == {StoredReminders(dsk)[i].id : i \in DOMAIN StoredReminders(dsk)}

IsSuffix(old, new) ==
    /\ Len(old) <= Len(new)
    /\ SubSeq(new, Len(new) - Len(old) + 1, Len(new)) = old

\* the document new holds every completed write the document old holds: no key
\* is gone and the tokens are the same; the request history has grown at its
\* head only; the rules are the same but for a later lastTriggered; every
\* authorized user is still authorized and every pending user is pending or
\* authorized; every reminder is stored as it was created, with a lastRun that
\* is not earlier, unless its id is in stopped
KeepsWrites(old, new, stopped) ==
    /\ DOMAIN old \subseteq DOMAIN new
    /\ \A k \in DOMAIN old \cap (TokenKeys \cup {"cameraName"}) : new[k] = old[k]
    /\ IsSuffix(StoredHistory(old), StoredHistory(new))
    /\ Len(StoredRules(new)) = Len(StoredRules(old))
    /\ \A i \in DOMAIN StoredRules(old) :
          /\ [k \in DOMAIN StoredRules(old)[i] \ {"lastTriggered"} |-> StoredRules(old)[i][k]]
                = [k \in DOMAIN StoredRules(new)[i] \ {"lastTriggered"} |-> StoredRules(new)[i][k]]
          /\ LastTriggeredOf(StoredRules(new)[i]) >= LastTriggeredOf(StoredRules(old)[i])
    /\ \A i \in DOMAIN GetAuthorizedUsers(old) :
          Includes(GetAuthorizedUsers(new), GetAuthorizedUsers(old)[i])
    /\ \A i \in DOMAIN GetPendingUsers(old) :
          \/ IsPending(new, GetPendingUsers(old)[i].userId)
          \/ Includes(GetAuthorizedUsers(new), GetPendingUsers(old)[i].userId)
    /\ \A i \in DOMAIN StoredReminders(old) :
          LET r == StoredReminders(old)[i]
          IN \/ r.id \in stopped
             \/ \E j \in DOMAIN StoredReminders(new) :
                   /\ [StoredReminders(new)[j] EXCEPT !.lastRun = r.lastRun] = r
                   /\ StoredReminders(new)[j].lastRun >= r.lastRun

\* C20: no step of the reminders, the alerts, the approvals and the request
\* history takes a completed write out of the stored config or puts an older
\* value back, whatever the steps before it were; a reminder leaves the stored
\* config only in the step that stops it.
C20_NoCompletedWriteLost ==
    [][KeepsWrites(disk, disk', MapIds \ MapIds')]_vars

-----------------------------------------------------------------------------
(* saveConfigToDisk step by step *)

\* fs.writeFileSync(path) opens and empties a file with the write at the
\* temporary path written to the config path
WriteOpenInPlace(st) == [st EXCEPT !.dsk = Truncated]

\* fs.writeFileSync(tmpFile, ...) opens and empties the temporary file
WriteOpen(st) == [st EXCEPT !.tmp = Truncated]

\* fs.writeFileSync(tmpFile, JSON.stringify(config)) has written the document
WriteAll(st) == [st EXCEPT !.tmp = Serialize(st.cfg, st.hp)]

\* fs.renameSync(tmpFile, CONFIG_FILE)
Rename(st) == [st EXCEPT !.dsk = st.tmp, !.tmp = NoFile]

\* the file steps below leave everything but the two files and savePc
SaveFrame ==
    UNCHANGED <<now, running, currentConfig, heap, menuStates, sent>>
      /\ UNCHANGED alertVars /\ UNCHANGED reminderVars

\* POST /api/config: updateConfig({ ringRefreshToken, openaiApiKey, cameraName })
\* up to the call of saveConfigToDisk
PostConfig(partial) ==
    /\ running
    /\ savePc = "none"
    /\ LET s1 == GetConfig(Mem)
       IN /\ currentConfig' = UpdateConfigNext(s1.cfg, partial)
          /\ heap' = s1.hp
    /\ savePc' = "open"
    /\ UNCHANGED <<now, running, disk, tmpFile, menuStates, sent>>
    /\ UNCHANGED alertVars /\ UNCHANGED reminderVars

SaveOpen ==
    /\ running
    /\ savePc = "open"
    /\ disk' = WriteOpen(Mem).dsk
    /\ tmpFile' = WriteOpen(Mem).tmp
    /\ savePc' = "write"
    /\ SaveFrame

SaveWrite ==
    /\ running
    /\ savePc = "write"
    /\ disk' = WriteAll(Mem).dsk
    /\ tmpFile' = WriteAll(Mem).tmp
    /\ savePc' = "rename"
    /\ SaveFrame

SaveRename ==
    /\ running
    /\ savePc = "rename"
    /\ disk' = Rename(Mem).dsk
    /\ tmpFile' = Rename(Mem).tmp
    /\ savePc' = "none"
    /\ SaveFrame

\* the process is killed
Crash ==
    /\ running
    /\ running' = FALSE
    /\ currentConfig' = <<>>
    /\ heap' = <<>>
    /\ savePc' = "none"
    /\ reminders' = <<>>
    /\ reminderIntervals' = <<>>
    /\ timers' = {}
    /\ inflight' = {}
    /\ motionStates' = <<>>
    /\ isInitialized' = FALSE
    /\ initCalls' = 0
    /\ subscriptions' = NoSubscriptions
    /\ ding' = NoDing
    /\ hs' = [h \in Handlers |-> IdleHandler]
    /\ menuStates' = <<>>
    /\ UNCHANGED <<now, disk, tmpFile, sent, evt, fired>>

ConfigPosts ==
    [ringRefreshToken : {"", "token", "token2"}, openaiApiKey : {"", "key"},
     cameraName : Cameras]

SaveInit ==
    /\ running = FALSE
    /\ now \in {h * MsPerHour : h \in NoonHours}
    /\ currentConfig = <<>>
    /\ disk \in {NoFile, Authorized}
    /\ tmpFile = NoFile
    /\ savePc = "none"
    /\ menuStates = <<>>
    /\ sent = {}
    /\ motionStates = <<>>
    /\ isInitialized = FALSE
    /\ initCalls = 0
    /\ subscriptions = NoSubscriptions
    /\ ding = NoDing
    /\ hs = [h \in Handlers |-> IdleHandler]
    /\ evt = 0
    /\ fired = [r \in RuleIds |-> [n |-> 0, at |-> 0]]
    /\ heap = <<>>
    /\ reminders = <<>>
    /\ reminderIntervals = <<>>
    /\ timers = {}
    /\ inflight = {}

SaveNext ==
    \/ Startup
    \/ \E partial \in ConfigPosts : PostConfig(partial)
    \/ SaveOpen
    \/ SaveWrite
    \/ SaveRename
    \/ Crash

SaveSpec == SaveInit /\ [][SaveNext]_vars

\* C21: at every step of a save, and after a crash at any of them, the file at
\* the config path is the file it was or the complete document being saved,
\* and never the beginning of a document.
C21_SaveIsAtomic ==
    [][/\ disk' # Truncated
       /\ disk' = disk \/ disk' = Serialize(currentConfig, heap)]_vars

\* C21, witness: the process was killed while the temporary file was being
\* written, after an earlier save had replaced the config file.
C21_Witness ==
    /\ ~running
    /\ tmpFile = Truncated
    /\ IsJson(disk)
    /\ "cameraName" \in DOMAIN disk

-----------------------------------------------------------------------------
(* Starting with a missing or unreadable config file *)

LoadInit ==
    /\ running = FALSE
    /\ now \in {h * MsPerHour : h \in NoonHours}
    /\ currentConfig = <<>>
    /\ disk \in {NoFile, Truncated} \cup ClearDisks
    /\ tmpFile = NoFile
    /\ savePc = "none"
    /\ menuStates = <<>>
    /\ sent = {}
    /\ motionStates = <<>>
    /\ isInitialized = FALSE
    /\ initCalls = 0
    /\ subscriptions = NoSubscriptions
    /\ ding = NoDing
    /\ hs = [h \in Handlers |-> IdleHandler]
    /\ evt = 0
    /\ fired = [r \in RuleIds |-> [n |-> 0, at |-> 0]]
    /\ heap = <<>>
    /\ reminders = <<>>
    /\ reminderIntervals = <<>>
    /\ timers = {}
    /\ inflight = {}

LoadNext ==
    \/ Startup
    \/ Crash
    \/ \E userId \in Chats : RequestAccess(userId)
    \/ \E targetUserId \in Chats : ApproveUser(targetUserId)
    \/ \E chatId \in Chats, intervalMinutes \in Intervals :
          RemindCommand(chatId, intervalMinutes)
    \/ \E chatId \in Chats, reminderId \in KnownIds : StopCommand(chatId, reminderId)
    \/ Tick

LoadSpec == LoadInit /\ [][LoadNext]_vars

\* C22: while the config file is missing or is not valid JSON, a running
\* process (it started, so the load raised nothing) reads the empty config, with
\* no reminders and no alert rules, and has no reminder and no timer.
C22_BadFileLoadsEmpty ==
    (running /\ disk \in {NoFile, Truncated})
        => /\ GetConfig(Mem).cfg = <<>>
           /\ AlertRulesOf(GetConfig(Mem).cfg) = <<>>
           /\ reminders = <<>>
           /\ timers = {}

\* C22, witness: the process runs on a file that is not valid JSON, a minute
\* after it started.
C22_Witness == running /\ disk = Truncated /\ now > 12 * MsPerHour

\* C22, witness of the other case: the process runs with no file.
C22_WitnessMissing == running /\ disk = NoFile /\ now > 12 * MsPerHour

-----------------------------------------------------------------------------
(* Round trip of the config: load, then save what was loaded *)

\* the values a key of the stored document may have; <<>> is the absent key
TokenOptions == {<<>>, [ringRefreshToken |-> ""], [ringRefreshToken |-> "token"]}
KeyOptions == {<<>>, [openaiApiKey |-> "key"]}
CameraOptions == {<<>>, [cameraName |-> "front"]}
ReminderOptions ==
    {<<>>, [telegramReminders |-> <<>>],
     [telegramReminders |-> <<StoredReminder(1, 1, TRUE)>>],
     [telegramReminders |-> <<StoredReminder(2, 1, FALSE), StoredReminder(1, 1, TRUE)>>]}
AuthorizedOptions == {<<>>, [telegramAuthorizedUsers |-> <<1>>]}
PendingOptions == {<<>>, [telegramPendingUsers |-> <<[userId |-> 2, requestTime |-> 0]>>]}
HistoryOptions ==
    {<<>>, [requestHistory |-> <<[userId |-> 1, action |-> "Reminder Created",
                                  timestamp |-> 0]>>]}
RuleOptions ==
    {<<>>, [alertRules |-> <<Spread(AiCooldown2("r1", "front"), [lastTriggered |-> 0])>>]}

Documents ==
    {Spread(t, Spread(k, Spread(c, Spread(r, Spread(a, Spread(p, Spread(h, ru))))))) :
        t \in TokenOptions, k \in KeyOptions, c \in CameraOptions, r \in ReminderOptions,
        a \in AuthorizedOptions, p \in PendingOptions, h \in HistoryOptions,
        ru \in RuleOptions}

\* what loadConfigFromDisk makes of a file
LogicalContent(file) == IF IsJson(file) THEN file ELSE <<>>

\* updateConfig(getConfig())
SaveLoaded ==
    /\ running
    /\ Commit(UpdateConfig(GetConfig(Mem), GetConfig(Mem).cfg), inflight)
    /\ UNCHANGED <<now, running>>
    /\ UNCHANGED alertVars

\* a temporary file is there from a save that was cut short
RoundTripInit ==
    /\ running = FALSE
    /\ now \in {h * MsPerHour : h \in NoonHours}
    /\ currentConfig = <<>>
    /\ disk \in Documents \cup {NoFile, Truncated}
    /\ tmpFile = Truncated
    /\ savePc = "none"
    /\ menuStates = <<>>
    /\ sent = {}
    /\ motionStates = <<>>
    /\ isInitialized = FALSE
    /\ initCalls = 0
    /\ subscriptions = NoSubscriptions
    /\ ding = NoDing
    /\ hs = [h \in Handlers |-> IdleHandler]
    /\ evt = 0
    /\ fired = [r \in RuleIds |-> [n |-> 0, at |-> 0]]
    /\ heap = <<>>
    /\ reminders = <<>>
    /\ reminderIntervals = <<>>
    /\ timers = {}
    /\ inflight = {}

RoundTripNext == Startup \/ SaveLoaded \/ Crash

RoundTripSpec == RoundTripInit /\ [][RoundTripNext]_vars

\* C23: saving the config that was loaded leaves the stored document with the
\* same content, key by key: reminders, alert rules, users, history, tokens; a
\* missing or unreadable file becomes the empty document.
C23_SaveOfLoadKeepsContent ==
    [][SaveLoaded => LogicalContent(disk') = LogicalContent(disk)]_vars

\* C23, witness: the loaded config was saved (the save took the temporary file
\* away) and the document holds reminders, rules, users, history and an empty
\* token.
C23_Witness ==
    /\ running
    /\ tmpFile = NoFile
    /\ IsJson(disk)
    /\ Len(StoredReminders(disk)) = 2
    /\ AlertRulesOf(disk) # <<>>
    /\ GetPendingUsers(disk) # <<>>
    /\ RequestHistoryOf(disk) # <<>>
    /\ "ringRefreshToken" \in DOMAIN disk
    /\ disk.ringRefreshToken = ""

-----------------------------------------------------------------------------
(* Ids of the reminders *)

\* C24: two distinct Reminder objects of the process (in the Map, in the
\* config, held by a timer or by a tick) never have the same id.
C24_DistinctReminderIds ==
    \A r1 \in DOMAIN heap : \A r2 \in DOMAIN heap :
       r1 # r2 => heap[r1].id # heap[r2].id

-----------------------------------------------------------------------------
(* The interval of a create request *)

DigitValue == [c \in {"0", "1", "2"} |-> IF c = "0" THEN 0 ELSE IF c = "1" THEN 1 ELSE 2]
IsDigits(text) == text # <<>> /\ \A i \in DOMAIN text : text[i] \in DOMAIN DigitValue

RECURSIVE DigitsValue(_)
DigitsValue(text) ==
    IF text = <<>> THEN 0
    ELSE 10 * DigitsValue(SubSeq(text, 1, Len(text) - 1)) + DigitValue[text[Len(text)]]

\* parseInt of a text that is a number with or without a sign
ParseInt(text) ==
    IF text[1] = "-" THEN 0 - DigitsValue(Tail(text)) ELSE DigitsValue(text)

\* the texts of an interval in a message or in callback data
IntervalTexts == {<<"1">>, <<"0">>, <<"0", "1">>, <<"-", "1">>, <<"-", "2">>}

\* /remind <text>: the handler runs when the text matches (\d+)
RemindText(chatId, text) ==
    /\ IsDigits(text)
    /\ RemindCommand(chatId, ParseInt(text))

\* callback data reminder_camera_<text>_<camera> of an authorized sender
ReminderCameraButton(chatId, text) == CreateReminder(chatId, ParseInt(text))

ButtonInit == ReminderInit /\ disk = Spread(Authorized, [telegramReminders |-> <<>>])

ButtonNext ==
    \/ Startup
    \/ \E chatId \in Chats, text \in IntervalTexts : RemindText(chatId, text)
    \/ \E chatId \in Chats, text \in IntervalTexts : ReminderCameraButton(chatId, text)
    \/ \E chatId \in Chats, reminderId \in KnownIds : StopCommand(chatId, reminderId)
    \/ \E t \in timers : TimerFire(t)
    \/ \E k \in inflight : TickSnapshot(k, TRUE)
    \/ \E k \in inflight : TickSendPhoto(k, TRUE)
    \/ Tick

ButtonSpec == ButtonInit /\ [][ButtonNext]_vars

\* C25: every reminder that is stored, held in the Map or armed has an
\* interval of at least one minute, whether /remind or the button
\* reminder_camera_<interval>_<camera> created it.
C25_IntervalAtLeastOne ==
    /\ \A i \in DOMAIN StoredReminders(disk) : StoredReminders(disk)[i].interval >= 1
    /\ \A i \in DOMAIN reminders : heap[reminders[i]].interval >= 1
    /\ \A t \in timers : heap[t.ref].interval >= 1

-----------------------------------------------------------------------------
(* Management of the alert rules *)

MaxRules == 2

\* addAlertRule: the id is Date.now() followed by random characters; the key
\* lastTriggered is written as undefined and so not stored
AddAlertRule(st, rule, random) ==
    LET s1 == GetConfig(st)
        newRule == Spread(rule, [id |-> <<now, random>>])
    IN UpdateConfig(s1, [alertRules |-> Append(AlertRulesOf(s1.cfg), newRule)])

\* deleteAlertRule
DeleteAlertRule(st, id) ==
    LET s1 == GetConfig(st)
        filteredRules == SelectSeq(AlertRulesOf(s1.cfg), LAMBDA rule : rule.id # id)
    IN UpdateConfig(s1, [alertRules |-> filteredRules])

\* the rules a caller may pass, without id
RuleInputs ==
    [cameraName : {"front"}, enabled : {TRUE},
     idleThresholdMinutes : {-1, 0}, cooldownMinutes : {1},
     activeHours : [start : {9}, end : {17, 24}]]

UpdateInputs ==
    {[enabled |-> FALSE], [cooldownMinutes |-> -5], [idleThresholdMinutes |-> 10],
     [activeHours |-> [start |-> 25, end |-> 3]]}

Randoms == {"a", "b"}

StoredRuleIds == {AlertRulesOf(disk)[i].id : i \in DOMAIN AlertRulesOf(disk)}

AddRule(rule, random) ==
    /\ running
    /\ Len(AlertRulesOf(GetConfig(Mem).cfg)) < MaxRules
    /\ <<now, random>> \notin StoredRuleIds
    /\ Commit(AddAlertRule(Mem, rule, random), inflight)
    /\ UNCHANGED <<now, running>>
    /\ UNCHANGED alertVars

UpdateRule(id, updates) ==
    /\ running
    /\ Commit(UpdateAlertRule(Mem, id, updates), inflight)
    /\ UNCHANGED <<now, running>>
    /\ UNCHANGED alertVars

DeleteRule(id) ==
    /\ running
    /\ Commit(DeleteAlertRule(Mem, id), inflight)
    /\ UNCHANGED <<now, running>>
    /\ UNCHANGED alertVars

RuleInit == ReminderInit /\ disk = Spread(Authorized, [telegramReminders |-> <<>>])

RuleNext ==
    \/ Startup
    \/ \E rule \in RuleInputs, random \in Randoms : AddRule(rule, random)
    \/ \E id \in StoredRuleIds, updates \in UpdateInputs : UpdateRule(id, updates)
    \/ \E id \in StoredRuleIds : DeleteRule(id)
    \/ Tick

RuleSpec == RuleInit /\ [][RuleNext]_vars

InRange(rule) ==
    /\ rule.idleThresholdMinutes >= 0
    /\ rule.cooldownMinutes >= 0
    /\ 0 <= rule.activeHours.start /\ rule.activeHours.start <= 23
    /\ 0 <= rule.activeHours.end /\ rule.activeHours.end <= 23

\* C26: after any calls of addAlertRule, updateAlertRule and deleteAlertRule
\* every stored rule has idleThresholdMinutes >= 0, cooldownMinutes >= 0 and
\* active hours within 0..23.
C26_StoredRulesInRange ==
    \A i \in DOMAIN AlertRulesOf(disk) : InRange(AlertRulesOf(disk)[i])

-----------------------------------------------------------------------------
(* Who may use the bot: the authorization checks of the handlers *)

ADMIN_USER_ID == 426747873

\* A message or a click reaches the bot with a sender (from.id) and a chat
\* (chat.id): the two are equal in a private chat and differ in a group. The
\* senders below write in one chat.
Senders == {1, 2, ADMIN_USER_ID}
AccessChats == {1}

TextCommands == {"/snapshot", "/reminders", "/remind", "/stop"}
MenuButtons == {"snapshot_", "reminder_list", "reminder_camera_", "reminder_stop_"}
AdminButtons == {"admin_approve_", "admin_deny_", "admin_remove_"}

\* data.startsWith('admin_')
StartsWithAdmin(data) == data \in AdminButtons

\* this.bot.sendMessage / sendPhoto / answerCallbackQuery, as a record of what
\* was sent to whom
Send(st, to, kind) == [st EXCEPT !.out = @ \cup {[to |-> to, kind |-> kind]}]

\* this.menuStates.get(chatId); undefined reads as the empty record
MenuStateOf(st, chatId) == IF chatId \in DOMAIN st.menu THEN st.menu[chatId] ELSE <<>>

\* handleCallbackQuery: "Store user info in menu state for tracking"
StoreUser(st, chatId, userId) ==
    LET currentState == MenuStateOf(st, chatId)
        currentMenu == IF "currentMenu" \in DOMAIN currentState
                       THEN currentState.currentMenu ELSE "main"
    IN [st EXCEPT !.menu = Put(@, chatId,
            Spread(currentState,
                   [chatId |-> chatId, currentMenu |-> currentMenu, user |-> userId]))]

\* handleUnauthorizedUser up to its first await
HandleUnauthorizedUser(st, chatId, userId) ==
    LET s1 == GetConfig(st)
    IN IF IsPending(s1.cfg, userId)
       THEN Send(s1, chatId, "Access Request Pending")
       ELSE Send(AddPendingUser(s1, userId), chatId, "Access Request Submitted")

\* the /remind handler after its checks
Remind(st, chatId, intervalMinutes) ==
    LET ref == NewRef(st.hp)
        s1 == [st EXCEPT !.hp = Put(@, ref, Reminder(chatId, intervalMinutes, 0, now))]
    IN Send(SaveReminders(StartReminder(MapSet(s1, ref), ref)), chatId, "Reminder set")

\* the handlers of /snapshot, /reminders, /remind <n> and /stop <id> after the
\* test of the sender; a snapshot or a list that is sent stands for the
\* continuation that takes or builds it
OnCommand(st, chatId, command, reminderId) ==
    CASE command = "/snapshot" -> Send(st, chatId, "snapshot")
      [] command = "/reminders" -> Send(st, chatId, "reminders")
      [] command = "/remind" -> Remind(st, chatId, 1)
      [] command = "/stop" -> Send(HandleStop(st, chatId, reminderId), chatId, "stop")

\* createReminder, with the request tracked for the user of the menu state
CreateReminderFor(st, chatId, interval) ==
    LET ref == NewRef(st.hp)
        s1 == [st EXCEPT !.hp = Put(@, ref, Reminder(chatId, interval, now, now))]
        s2 == StartReminder(SaveReminders(MapSet(s1, ref)), ref)
        menuState == MenuStateOf(s2, chatId)
    IN IF "user" \in DOMAIN menuState
       THEN TrackRequest(s2, menuState.user, "Reminder Created")
       ELSE s2

\* stopReminder, with the request tracked for the user of the menu state
StopReminderFor(st, chatId, reminderId) ==
    LET menuState == MenuStateOf(st, chatId)
    IN IF NotFound(st, chatId, reminderId) THEN st
       ELSE IF "user" \in DOMAIN menuState
       THEN TrackRequest(StopReminder(st, reminderId), menuState.user, "Reminder Stopped")
       ELSE StopReminder(st, reminderId)

\* IsAdmin that takes every sender for the admin
AnyAdmin(userId) == TRUE

\* userId !== ADMIN_USER_ID, negated
IsAdmin(userId) == userId = ADMIN_USER_ID

\* RemoveAuthorizedUser that also clears the stored reminders
RemoveAuthorizedUserClears(st, userId) ==
    LET s1 == GetConfig(st)
        filteredUsers == SelectSeq(GetAuthorizedUsers(s1.cfg), LAMBDA id : id # userId)
    IN UpdateConfig(s1, Spread(s1.cfg, [telegramAuthorizedUsers |-> filteredUsers,
                                        telegramReminders |-> <<>>]))

\* removeAuthorizedUser
RemoveAuthorizedUser(st, userId) ==
    LET s1 == GetConfig(st)
        filteredUsers == SelectSeq(GetAuthorizedUsers(s1.cfg), LAMBDA id : id # userId)
    IN UpdateConfig(s1, Spread(s1.cfg, [telegramAuthorizedUsers |-> filteredUsers]))

\* approveUser, denyUser and removeUser up to their first await
ApproveUserIn(st, adminChatId, targetUserId) ==
    IF ~IsPending(GetConfig(st).cfg, targetUserId)
    THEN Send(GetConfig(st), adminChatId, "not in the pending list")
    ELSE Send(RemovePendingUser(AddAuthorizedUser(st, targetUserId), targetUserId),
              adminChatId, "User Approved")

DenyUser(st, adminChatId, targetUserId) ==
    IF ~IsPending(GetConfig(st).cfg, targetUserId)
    THEN Send(GetConfig(st), adminChatId, "not in the pending list")
    ELSE Send(RemovePendingUser(st, targetUserId), adminChatId, "User Denied")

RemoveUser(st, adminChatId, targetUserId) ==
    IF ~Includes(GetAuthorizedUsers(GetConfig(st).cfg), targetUserId)
    THEN Send(GetConfig(st), adminChatId, "not in the authorized list")
    ELSE Send(RemoveAuthorizedUser(st, targetUserId), adminChatId, "User Removed")

\* handleAdminCallback for the approve, deny and remove buttons
HandleAdminCallback(st, chatId, data, userId, targetUserId) ==
    IF ~IsAdmin(userId) THEN Send(st, chatId, "Access denied. Admin only.")
    ELSE CASE data = "admin_approve_" -> ApproveUserIn(st, chatId, targetUserId)
           [] data = "admin_deny_" -> DenyUser(st, chatId, targetUserId)
           [] data = "admin_remove_" -> RemoveUser(st, chatId, targetUserId)

\* testReminder up to its first await
TestReminder(st, chatId, reminderId) ==
    IF NotFound(st, chatId, reminderId)
    THEN Send(st, chatId, "Reminder not found or access denied.")
    ELSE Send(st, chatId, "Testing reminder")

\* handleCallbackQuery after the test of the sender: the branch of the data
Dispatch(st, chatId, data, userId, targetUserId, reminderId) ==
    CASE data = "snapshot_" -> Send(st, chatId, "snapshot")
      [] data = "reminder_list" -> Send(st, chatId, "reminders")
      [] data = "reminder_camera_" -> CreateReminderFor(st, chatId, 1)
      [] data = "reminder_stop_" -> StopReminderFor(st, chatId, reminderId)
      [] data = "reminder_test_" -> TestReminder(st, chatId, reminderId)
      [] StartsWithAdmin(data) -> HandleAdminCallback(st, chatId, data, userId, targetUserId)

\* handleCallbackQuery
HandleCallbackQuery(st, chatId, data, userId, targetUserId, reminderId) ==
    LET s1 == StoreUser(st, chatId, userId)
    IN IF ~IsUserAuthorized(s1, userId) /\ ~StartsWithAdmin(data)
       THEN Send(GetConfig(s1), userId, "Access denied. Please request access first.")
       ELSE Dispatch(GetConfig(s1), chatId, data, userId, targetUserId, reminderId)

\* the ids a /stop or a stop button may name: those of the reminders, and one
\* that no reminder has
StopIds == KnownIds \cup {ReminderId(0, 0)}

\* a text command arrives
OnText(userId, chatId, command, reminderId) ==
    /\ running
    /\ command = "/remind" => Cardinality(timers) < MaxReminders
    /\ Commit(IF ~IsUserAuthorized(Mem, userId)
              THEN HandleUnauthorizedUser(Mem, chatId, userId)
              ELSE OnCommand(GetConfig(Mem), chatId, command, reminderId),
              inflight)
    /\ UNCHANGED <<now, running>>
    /\ UNCHANGED alertVars

\* a button is pressed
CallbackQuery(userId, chatId, data, targetUserId, reminderId) ==
    /\ running
    /\ data = "reminder_camera_" => Cardinality(timers) < MaxReminders
    /\ Len(RequestHistoryOf(GetConfig(Mem).cfg)) < MaxRequests
    /\ Commit(HandleCallbackQuery(Mem, chatId, data, userId, targetUserId, reminderId),
              inflight)
    /\ UNCHANGED <<now, running>>
    /\ UNCHANGED alertVars

\* /admin: handleAdminCommand
AdminCommand(userId, chatId) ==
    /\ running
    /\ Commit(IF ~IsAdmin(userId) THEN Send(Mem, chatId, "Access denied. Admin only.")
              ELSE Send(Mem, chatId, "Admin Panel"),
              inflight)
    /\ UNCHANGED <<now, running>>
    /\ UNCHANGED alertVars

AccessInit == ReminderInit /\ disk = Spread(Authorized, [telegramReminders |-> <<>>])

\* the reminder ids and the user ids a command or a button carries
IdsOf(data) ==
    IF data \in {"/stop", "reminder_stop_", "reminder_test_"} THEN StopIds ELSE {ReminderId(0, 0)}
TargetsOf(data) == IF StartsWithAdmin(data) THEN Senders ELSE {0}

AccessNext ==
    \/ Startup
    \/ \E userId \in Senders, chatId \in AccessChats, command \in TextCommands :
          \E reminderId \in IdsOf(command) : OnText(userId, chatId, command, reminderId)
    \/ \E userId \in Senders, chatId \in AccessChats, data \in MenuButtons \cup AdminButtons :
          \E targetUserId \in TargetsOf(data), reminderId \in IdsOf(data) :
             CallbackQuery(userId, chatId, data, targetUserId, reminderId)
    \/ \E userId \in Senders, chatId \in AccessChats : AdminCommand(userId, chatId)

AccessSpec == AccessInit /\ [][AccessNext]_vars

\* the step is a text command or a menu button, none of the admin_ buttons, of
\* the sender userId
RequestOf(userId) ==
    \/ \E chatId \in AccessChats, command \in TextCommands :
          \E reminderId \in IdsOf(command) : OnText(userId, chatId, command, reminderId)
    \/ \E chatId \in AccessChats, data \in MenuButtons :
          \E reminderId \in IdsOf(data) : CallbackQuery(userId, chatId, data, 0, reminderId)

\* the step leaves the reminders, their timers and the config as they are, but
\* for userId appended to the pending users, and sends no snapshot and no list
OnlyRequestsAccess(userId) ==
    /\ reminders' = reminders
    /\ reminderIntervals' = reminderIntervals
    /\ timers' = timers
    /\ heap' = heap
    /\ \A m \in sent' : m.kind \notin {"snapshot", "reminders", "Reminder set", "stop"}
    /\ DOMAIN currentConfig' \ {"telegramPendingUsers"} = DOMAIN currentConfig \ {"telegramPendingUsers"}
    /\ \A k \in DOMAIN currentConfig \ {"telegramPendingUsers"} : currentConfig'[k] = currentConfig[k]
    /\ GetPendingUsers(currentConfig') \in
          {GetPendingUsers(currentConfig),
           Append(GetPendingUsers(currentConfig), [userId |-> userId, requestTime |-> now])}

AdminRequestOf(userId) ==
    \/ \E chatId \in AccessChats, data \in AdminButtons, targetUserId \in Senders :
          CallbackQuery(userId, chatId, data, targetUserId, ReminderId(0, 0))
    \/ \E chatId \in AccessChats : AdminCommand(userId, chatId)

\* C28: only the admin changes who is authorized: an approve, deny or remove
\* requested by any other user id, authorized or not, leaves
\* telegramAuthorizedUsers and telegramPendingUsers as they are, and while the
\* process runs telegramAuthorizedUsers changes in a step of the admin only.
C28_OnlyAdminChangesAccess ==
    [][/\ \A userId \in Senders \ {ADMIN_USER_ID} :
             AdminRequestOf(userId)
                => /\ GetAuthorizedUsers(currentConfig') = GetAuthorizedUsers(currentConfig)
                   /\ GetPendingUsers(currentConfig') = GetPendingUsers(currentConfig)
       /\ (running /\ running'
             /\ GetAuthorizedUsers(currentConfig') # GetAuthorizedUsers(currentConfig))
             => AdminRequestOf(ADMIN_USER_ID)]_vars

\* a sender who is authorized and not the admin pressed an admin button while
\* a request was pending, and was refused
C28_Witness ==
    /\ IsUserAuthorized(Mem, 1)
    /\ IsPending(currentConfig, 2)
    /\ 1 \in DOMAIN menuStates /\ menuStates[1].user = 1
    /\ sent = {[to |-> 1, kind |-> "Access denied. Admin only."]}

-----------------------------------------------------------------------------
(* A tick whose save fails *)

\* the call of saveConfigToDisk that throws
FailsAt == {"open", "write", "rename"}

\* saveConfigToDisk that throws: writeFileSync fails to open the temporary
\* file or fails while it writes, or renameSync fails
SaveConfigToDiskThrows(st, at) ==
    CASE at = "open" -> st
      [] at = "write" -> WriteOpen(st)
      [] at = "rename" -> WriteAll(WriteOpen(st))

\* updateConfig when saveConfigToDisk throws: currentConfig = next is done
UpdateConfigThrows(st, partial, at) ==
    LET s1 == GetConfig(st)
    IN SaveConfigToDiskThrows([s1 EXCEPT !.cfg = UpdateConfigNext(s1.cfg, partial)], at)

\* saveReminders when saveConfigToDisk throws
SaveRemindersThrows(st, at) ==
    LET s1 == GetConfig(st)
    IN UpdateConfigThrows(s1, Spread(s1.cfg, [telegramReminders |-> s1.rems]), at)

\* CatchTick that stops the reminder of the tick
CatchTickStops(st, ref) ==
    ClearIntervalOf([st EXCEPT !.hp[ref].isActive = FALSE], st.hp[ref].id)

\* the catch block of a tick up to its await: console.error(...)
CatchTick(st, ref) == st

\* a tick: await bot.sendPhoto(...) returns, lastRun is set, and the save of
\* the reminders throws
TickSaveFails(k, at) ==
    /\ running
    /\ k \in inflight
    /\ k.stage = "send"
    /\ LET s1 == [GetConfig(Mem) EXCEPT !.hp[k.ref].lastRun = now]
       IN Commit(CatchTick(SaveRemindersThrows(s1, at), k.ref),
                 (inflight \ {k}) \cup {[k EXCEPT !.stage = "error"]})
    /\ UNCHANGED <<now, running>>
    /\ UNCHANGED alertVars

DiskFailNext ==
    \/ TickSteps
    \/ \E k \in inflight, at \in FailsAt : TickSaveFails(k, at)
    \/ \E k \in inflight : TickSendErrorFails(k)
    \/ \E chatId \in Chats, reminderId \in KnownIds : StopCommand(chatId, reminderId)

DiskFailSpec == ClearInit /\ [][DiskFailNext]_vars

\* the step is the stop of a reminder by its chat
StopStep == \E chatId \in Chats, reminderId \in KnownIds : StopCommand(chatId, reminderId)

\* C29: a tick whose save fails leaves the timer of the reminder armed and the
\* reminder active, and the memory holds the new lastRun; while the process
\* runs no step takes the value back (lastRun only grows, a reminder becomes
\* inactive by its stop only), and every save that succeeds writes the memory
\* to the file.
C29_FailedSaveKeepsMemory ==
    [][/\ \A k \in inflight :
             (\E at \in FailsAt : TickSaveFails(k, at))
                => /\ timers' = timers
                   /\ reminderIntervals' = reminderIntervals
                   /\ reminders' = reminders
                   /\ heap'[k.ref].isActive = heap[k.ref].isActive
                   /\ heap'[k.ref].lastRun = now
                   /\ disk' = disk
       /\ (running /\ running')
             => /\ \A ref \in DOMAIN heap \cap DOMAIN heap' :
                      /\ heap'[ref].lastRun >= heap[ref].lastRun
                      /\ (heap[ref].isActive /\ ~heap'[ref].isActive) => StopStep
                /\ disk' # disk => disk' = Serialize(currentConfig', heap')]_vars

\* a save failed in a tick of an active reminder: the memory holds a lastRun
\* the file does not, and the timer of the reminder is armed
C29_Witness ==
    \E k \in inflight :
        /\ k.stage = "error"
        /\ heap[k.ref].isActive
        /\ heap[k.ref].lastRun >= k.at
        /\ disk # Serialize(currentConfig, heap)
        /\ \E t \in timers : t.ref = k.ref

-----------------------------------------------------------------------------
(* The alert of a rule that fired, with users to notify *)

NotifyRules ==
    { <<Cooldown2("r1", "front")>>,
      <<AiCooldown2("r1", "front"), Idle1("r2", "front")>> }

NotifyUsers == [telegramAuthorizedUsers |-> <<1, 2>>]

NotifyInit ==
    /\ running = TRUE
    /\ \E rules \in NotifyRules :
          /\ now \in {h * MsPerHour : h \in NoonHours}
          /\ currentConfig =
                Spread(NotifyUsers, [ringRefreshToken |-> "token", alertRules |-> rules])
          /\ disk = currentConfig
    /\ tmpFile = NoFile
    /\ savePc = "none"
    /\ menuStates = <<>>
    /\ sent = {}
    /\ motionStates = <<>>
    /\ isInitialized = FALSE
    /\ initCalls = 0
    /\ subscriptions = NoSubscriptions
    /\ ding = NoDing
    /\ hs = [h \in Handlers |-> IdleHandler]
    /\ evt = 0
    /\ fired = [r \in RuleIds |-> [n |-> 0, at |-> 0]]
    /\ heap = <<>>
    /\ reminders = <<>>
    /\ reminderIntervals = <<>>
    /\ timers = {}
    /\ inflight = {}

NotifySpec == NotifyInit /\ [][AlertNext]_vars

\* the step asks the bot to send the alert to userId
AlertAttempted(userId) == \E m \in sent' : m.to = userId /\ m.kind = "Motion Alert"

\* C30: when an alert fires, a send is attempted to every user in
\* telegramAuthorizedUsers: the triggerAlert of a rule that fired and got its
\* snapshot does not end without a send to each of them.
C30_AlertSentToEveryAuthorizedUser ==
    [][\A h \in Handlers :
          TriggerImport(h)
             => \A i \in DOMAIN GetAuthorizedUsers(currentConfig) :
                   AlertAttempted(GetAuthorizedUsers(currentConfig)[i])]_vars

-----------------------------------------------------------------------------
(* The external calls of the AI gate *)

\* the step issues getSnapshotBase64 for the AI criteria of a rule in invocation h
IssuesAiSnapshot(h) ==
    /\ hs'[h].pc = "aiSnapshot"
    /\ hs[h].pc # "aiSnapshot" \/ hs[h].idx # hs'[h].idx \/ hs[h].rules # hs'[h].rules

\* the step issues analyzeImage for the AI criteria of a rule in invocation h
IssuesAiQuery(h) == hs'[h].pc = "aiAnalyze" /\ hs[h].pc # "aiAnalyze"

\* C31: the snapshot of a rule's AI gate is requested only in a step in which
\* the rule is enabled and passes the cooldown, the active hours and the idle
\* threshold check, and the vision query only for the rule whose snapshot
\* arrived: a rule that fails a local check causes no external call.
C31_AiCallsAfterLocalChecks ==
    [][\A h \in Handlers :
          /\ IssuesAiSnapshot(h)
                => LET rule == hs'[h].rules[hs'[h].idx]
                   IN /\ rule.enabled
                      /\ ~InCooldown(rule, now)
                      /\ ~OutsideActiveHours(rule, GetHours(now))
                      /\ ~IdleTooShort(rule, hs'[h].cam, now, motionStates')
                      /\ NeedsAi(rule)
          /\ IssuesAiQuery(h)
                => /\ hs[h].pc = "aiSnapshot"
                   /\ hs'[h].idx = hs[h].idx
                   /\ hs'[h].rules = hs[h].rules]_vars

\* the vision query of a rule is pending for the second time: the rule fired
\* before, and its cooldown has passed
C31_Witness ==
    \E h \in Handlers :
        /\ hs[h].pc = "aiAnalyze"
        /\ fired[hs[h].rules[hs[h].idx].id].n >= 1
        /\ ~InCooldown(hs[h].rules[hs[h].idx], now)

-----------------------------------------------------------------------------
(* The window of active hours, for every hour of the day *)

HoursOfDay == 0..23
WindowBounds == {0, 9, 17, 23}

\* one enabled rule with a window that does not wrap, no cooldown, no idle
\* threshold and no AI criteria
WindowRules ==
    {<<AlertRule("r1", "front", TRUE, 0, w[1], w[2], 0)>> :
        w \in {v \in WindowBounds \X WindowBounds : v[1] <= v[2]}}

HoursInit ==
    /\ running = TRUE
    /\ now \in {h * MsPerHour : h \in HoursOfDay}
    /\ \E rules \in WindowRules :
          /\ currentConfig = [ringRefreshToken |-> "token", alertRules |-> rules]
          /\ disk = currentConfig
    /\ tmpFile = NoFile
    /\ savePc = "none"
    /\ menuStates = <<>>
    /\ sent = {}
    /\ motionStates = <<>>
    /\ isInitialized = FALSE
    /\ initCalls = 0
    /\ subscriptions = NoSubscriptions
    /\ ding = NoDing
    /\ hs = [h \in Handlers |-> IdleHandler]
    /\ evt = 0
    /\ fired = [r \in RuleIds |-> [n |-> 0, at |-> 0]]
    /\ heap = <<>>
    /\ reminders = <<>>
    /\ reminderIntervals = <<>>
    /\ timers = {}
    /\ inflight = {}

HoursNext ==
    \/ \E ok \in BOOLEAN : Initialize(ok)
    \/ \E h \in Handlers : HandleMotionEvent(h, "front")
    \/ \E h \in Handlers, ok \in BOOLEAN : TriggerSnapshot(h, ok)
    \/ \E h \in Handlers : TriggerImport(h)
    \/ Tick

HoursSpec == HoursInit /\ [][HoursNext]_vars

\* C32: for a rule with activeHours.start <= activeHours.end the active hours
\* check passes exactly in the hours h with start <= h <= end: a motion event
\* on the camera of such a rule, which passes every other check, fires the
\* rule in these hours and in no other.
C32_WindowIsInclusive ==
    [][\A h \in Handlers :
          HandleMotionEvent(h, "front")
             => LET rule == AlertRulesOf(currentConfig)[1]
                IN (fired'["r1"].n = fired["r1"].n + 1)
                      <=> /\ rule.activeHours.start <= GetHours(now)
                          /\ GetHours(now) <= rule.activeHours.end]_vars

\* the rule fired in the last hour of a window of several hours
C32_Witness ==
    LET rule == AlertRulesOf(currentConfig)[1]
    IN /\ fired["r1"].n >= 1
       /\ fired["r1"].at = now
       /\ rule.activeHours.start < rule.activeHours.end
       /\ GetHours(now) = rule.activeHours.end

-----------------------------------------------------------------------------
(* Stop and test requests, from the chat of the reminder and from another *)

OwnerSenders == {1, 2}
OwnerButtons == {"reminder_stop_", "reminder_test_"}

\* the step is /stop <id>, the stop button or the test button of the
\* reminder reminderId, sent by userId in the chat chatId
OwnerRequest(userId, chatId, reminderId) ==
    \/ OnText(userId, chatId, "/stop", reminderId)
    \/ \E data \in OwnerButtons : CallbackQuery(userId, chatId, data, 0, reminderId)

OwnerNext ==
    \/ Startup
    \/ \E userId \in OwnerSenders, chatId \in Chats, reminderId \in StopIds :
          OnText(userId, chatId, "/stop", reminderId)
    \/ \E userId \in OwnerSenders, chatId \in Chats, reminderId \in StopIds,
          data \in OwnerButtons : CallbackQuery(userId, chatId, data, 0, reminderId)

OwnerSpec == ClearInit /\ [][OwnerNext]_vars

\* the chats other than the one the reminder reminderId of the map belongs to
OtherChats(reminderId) ==
    {c \in Chats : \E i \in DOMAIN reminders :
                      heap[reminders[i]].id = reminderId /\ heap[reminders[i]].chatId # c}

-----------------------------------------------------------------------------
(* The request history at its limit *)

MaxAdds == 3

\* a stored history of n requests made before the process started, newest first
OldHistory(n) ==
    [i \in 1..n |-> [userId |-> 1, action |-> "Snapshot",
                     timestamp |-> 11 * MsPerHour - i]]

HistoryLengths == {0, HistoryLimit - 1, HistoryLimit}

HistoryInit ==
    /\ running = FALSE
    /\ now \in {h * MsPerHour : h \in NoonHours}
    /\ currentConfig = <<>>
    /\ \E n \in HistoryLengths :
          disk = Spread(Authorized, [requestHistory |-> OldHistory(n)])
    /\ tmpFile = NoFile
    /\ savePc = "none"
    /\ menuStates = <<>>
    /\ sent = {}
    /\ motionStates = <<>>
    /\ isInitialized = FALSE
    /\ initCalls = 0
    /\ subscriptions = NoSubscriptions
    /\ ding = NoDing
    /\ hs = [h \in Handlers |-> IdleHandler]
    /\ evt = 0
    /\ fired = [r \in RuleIds |-> [n |-> 0, at |-> 0]]
    /\ heap = <<>>
    /\ reminders = <<>>
    /\ reminderIntervals = <<>>
    /\ timers = {}
    /\ inflight = {}

\* the entries added since the process started
AddedEntries(history) == {i \in DOMAIN history : history[i].timestamp >= 12 * MsPerHour}

\* trackRequest -> addRequestHistory(entry)
AddHistory(userId, action) ==
    /\ running
    /\ Cardinality(AddedEntries(RequestHistoryOf(GetConfig(Mem).cfg))) < MaxAdds
    /\ Commit(TrackRequest(Mem, userId, action), inflight)
    /\ UNCHANGED <<now, running>>
    /\ UNCHANGED alertVars

HistoryNext ==
    \/ Startup
    \/ \E userId \in Chats : AddHistory(userId, "Snapshot")
    \/ Tick

HistorySpec == HistoryInit /\ [][HistoryNext]_vars

NewestFirst(history) ==
    \A i \in DOMAIN history : i > 1 => history[i - 1].timestamp >= history[i].timestamp

\* C34: the stored request history never holds more than 1000 entries and is
\* ordered newest first, and an addRequestHistory puts its entry first and
\* keeps the entries before it in their order, dropping only the oldest one
\* when the limit is reached.
C34_HistoryBoundedNewestFirst ==
    [][LET old == RequestHistoryOf(GetConfig(Mem).cfg)
           new == RequestHistoryOf(currentConfig')
       IN /\ running' =>
                /\ Len(new) <= HistoryLimit
                /\ NewestFirst(new)
                /\ RequestHistoryOf(disk') = new
          /\ (\E userId \in Chats : AddHistory(userId, "Snapshot")) =>
                /\ Len(new) = Min({Len(old) + 1, HistoryLimit})
                /\ new[1].timestamp = now
                /\ \A i \in 2..Len(new) : new[i] = old[i - 1]]_vars

\* the history is full, and the three newest entries were added by the process
C34_Witness ==
    /\ running
    /\ Len(RequestHistoryOf(currentConfig)) = HistoryLimit
    /\ Cardinality(AddedEntries(RequestHistoryOf(currentConfig))) = MaxAdds
    /\ RequestHistoryOf(currentConfig)[MaxAdds + 1].timestamp = 11 * MsPerHour - 1

\* the user ids of a list of pending users
PendingIds(cfg) == {GetPendingUsers(cfg)[i].userId : i \in DOMAIN GetPendingUsers(cfg)}
AuthorizedIds(cfg) == {GetAuthorizedUsers(cfg)[i] : i \in DOMAIN GetAuthorizedUsers(cfg)}

\* the step is the admin's approve or deny button for targetUserId
ApproveOrDeny(targetUserId) ==
    \E chatId \in AccessChats, data \in {"admin_approve_", "admin_deny_"} :
        CallbackQuery(ADMIN_USER_ID, chatId, data, targetUserId, ReminderId(0, 0))

\* C35: after any sequence of access requests, approvals, denials and removals
\* no user id is both authorized and pending, in memory and in the file, and
\* the approval or denial of a user who is not pending changes neither list.
C35_AuthorizedAndPendingDisjoint ==
    [][/\ running' =>
             /\ AuthorizedIds(currentConfig') \cap PendingIds(currentConfig') = {}
             /\ AuthorizedIds(disk') \cap PendingIds(disk') = {}
       /\ \A targetUserId \in Senders :
             (ApproveOrDeny(targetUserId) /\ targetUserId \notin PendingIds(currentConfig))
                => /\ GetAuthorizedUsers(currentConfig') = GetAuthorizedUsers(currentConfig)
                   /\ GetPendingUsers(currentConfig') = GetPendingUsers(currentConfig)]_vars

\* user 2 asked for access and was approved, and the admin then approved or
\* denied a user who was not pending
C35_Witness ==
    /\ 2 \in AuthorizedIds(currentConfig)
    /\ 2 \notin PendingIds(currentConfig)
    /\ sent = {[to |-> 1, kind |-> "not in the pending list"]}

-----------------------------------------------------------------------------
(* A stop during a tick *)

\* the ids of the reminders a config file holds
ReminderIdsOf(cfg) == {StoredReminders(cfg)[i].id : i \in DOMAIN StoredReminders(cfg)}

\* the tick k is past its snapshot, and its reminder was stopped since it began
StoppedInFlight(k) == k \in inflight /\ k.stage = "send" /\ ~heap[k.ref].isActive

\* C36: when a reminder was stopped while its tick was in flight, the
\* completion of the tick sets lastRun and saves the reminders, and after it
\* the reminder is neither in the Map nor in the config in memory nor in the
\* file, and the timers and the timer table are as they were.
C36_StoppedTickStaysStopped ==
    [][\A k \in inflight :
          (StoppedInFlight(k) /\ TickEnds(k))
              => /\ k.ref \in DOMAIN heap' => heap'[k.ref].lastRun = now
                 /\ heap[k.ref].id \notin {heap'[reminders'[i]].id : i \in DOMAIN reminders'}
                 /\ \A i \in DOMAIN StoredReminders(currentConfig') :
                       heap'[StoredReminders(currentConfig')[i]].id # heap[k.ref].id
                 /\ heap[k.ref].id \notin ReminderIdsOf(disk')
                 /\ timers' = timers
                 /\ reminderIntervals' = reminderIntervals]_vars

\* one of two ticks of a stopped reminder has ended: the reminder holds the
\* time of that tick, no timer is armed for it and the file does not hold it
C36_Witness ==
    \E ref \in DOMAIN heap :
        /\ ~heap[ref].isActive
        /\ heap[ref].lastRun = now
        /\ heap[ref].lastRun > heap[ref].id[2]
        /\ \E k \in inflight : k.ref = ref
        /\ heap[ref].id \notin ArmedIds
        /\ heap[ref].id \notin ReminderIdsOf(disk)

-----------------------------------------------------------------------------
(* The timers and the timer table *)

\* C37: while the process runs there are as many armed interval timers as
\* entries of the reminderIntervals table, and every armed timer is the timer
\* of the handle the table holds for the id of its reminder, so that a stop of
\* the id clears it.
C37_TimersMatchTable ==
    running =>
        /\ Cardinality(timers) = Cardinality(DOMAIN reminderIntervals)
        /\ \A t \in timers :
              /\ heap[t.ref].id \in DOMAIN reminderIntervals
              /\ reminderIntervals[heap[t.ref].id] = t.handle

-----------------------------------------------------------------------------
(* Calls of initialize that overlap *)

\* the calls of initialize that may be suspended at the same time
MaxInitCalls == 2

\* initialize() up to await this.ringApi.getCameras(): isInitialized is
\* tested, the token is read and the RingApi is made
InitializeCall ==
    /\ running
    /\ ~isInitialized
    /\ initCalls < MaxInitCalls
    /\ LET st == GetConfig(Mem)
       IN /\ "ringRefreshToken" \in DOMAIN st.cfg
          /\ st.cfg.ringRefreshToken # ""
          /\ Commit(st, inflight)
    /\ initCalls' = initCalls + 1
    /\ UNCHANGED <<now, running, motionStates, isInitialized, subscriptions, ding, hs, evt, fired>>

\* await getCameras() of a suspended call returns, and the call runs to its
\* end: the motion states are set, the callbacks are subscribed and
\* isInitialized is set; or it throws
InitializeReturn(ok) ==
    /\ running
    /\ initCalls > 0
    /\ initCalls' = initCalls - 1
    /\ IF ok
       THEN /\ motionStates' =
                  [c \in Cameras |->
                      [cameraName |-> c, lastMotion |-> now, isActive |-> FALSE]]
            /\ subscriptions' = Subscribe(subscriptions)
            /\ isInitialized' = TRUE
       ELSE UNCHANGED <<motionStates, subscriptions, isInitialized>>
    /\ UNCHANGED <<now, running, currentConfig, disk, tmpFile, savePc, menuStates, sent, heap>>
    /\ UNCHANGED <<ding, hs, evt, fired>>
    /\ UNCHANGED reminderVars

\* a camera emits a motion event: every subscriber of onNewDing is to be called
Emit(cameraName) ==
    /\ running
    /\ ding.left = 0
    /\ subscriptions[cameraName] > 0
    /\ evt < MaxEvents
    /\ ding' = [cam |-> cameraName, left |-> subscriptions[cameraName]]
    /\ UNCHANGED <<now, running, currentConfig, disk, tmpFile, savePc, menuStates, sent, heap>>
    /\ UNCHANGED <<motionStates, isInitialized, initCalls, subscriptions, hs, evt, fired>>
    /\ UNCHANGED reminderVars

\* the next subscriber of the event being emitted is called
Deliver(h) ==
    /\ ding.left > 0
    /\ OnNewDing(h, ding.cam)
    /\ ding' = [ding EXCEPT !.left = @ - 1]

InitNext ==
    \/ AlertSteps
    \/ InitializeCall
    \/ \E ok \in BOOLEAN : InitializeReturn(ok)
    \/ \E c \in Cameras : Emit(c)
    \/ \E h \in Handlers : Deliver(h)

InitSpec == AlertInit /\ [][InitNext]_vars

\* C38: however the calls of initialize overlap, no camera has more than one
\* subscriber of its motion events, and a motion event has at most one
\* callback to run, so that it starts at most one pass over the rules.
C38_OneSubscriptionPerCamera ==
    running =>
        /\ \A c \in Cameras : subscriptions[c] <= 1
        /\ ding.left <= 1

-----------------------------------------------------------------------------
(* Revoking the access of a user who has reminders *)

\* the users the admin may remove: one with reminders, one without access
RevokeTargets == {1, 2}

\* the admin presses the remove button of targetUserId in the admin's chat
RemoveButton(targetUserId) ==
    CallbackQuery(ADMIN_USER_ID, ADMIN_USER_ID, "admin_remove_", targetUserId,
                  ReminderId(0, 0))

RevokeNext ==
    \/ TickSteps
    \/ \E targetUserId \in RevokeTargets : RemoveButton(targetUserId)

RevokeSpec == ClearInit /\ [][RevokeNext]_vars

\* the keys of a config other than the list of authorized users
OtherKeys(cfg) == DOMAIN cfg \ {"telegramAuthorizedUsers"}

\* C39: a removal of an authorized user takes the user out of the list of
\* authorized users and changes nothing else: the other keys of the config in
\* memory and in the file, the reminders map, the Reminder objects, the timers,
\* the timer table and the ticks in flight stay as they are; and the timer of
\* an active reminder starts its tick whether or not the user of its chat is
\* authorized.
C39_RevokeKeepsReminders ==
    [][/\ \A targetUserId \in RevokeTargets :
             (RemoveButton(targetUserId)
                 /\ Includes(GetAuthorizedUsers(currentConfig), targetUserId))
                => /\ GetAuthorizedUsers(currentConfig') =
                         SelectSeq(GetAuthorizedUsers(currentConfig),
                                   LAMBDA id : id # targetUserId)
                   /\ GetAuthorizedUsers(disk') = GetAuthorizedUsers(currentConfig')
                   /\ OtherKeys(currentConfig') = OtherKeys(currentConfig)
                   /\ \A key \in OtherKeys(currentConfig) :
                         currentConfig'[key] = currentConfig[key]
                   /\ OtherKeys(disk') = OtherKeys(disk)
                   /\ \A key \in OtherKeys(disk) : disk'[key] = disk[key]
                   /\ heap' = heap
                   /\ reminders' = reminders
                   /\ timers' = timers
                   /\ reminderIntervals' = reminderIntervals
                   /\ inflight' = inflight
       /\ \A t \in timers :
             (TimerFire(t) /\ heap[t.ref].isActive)
                => \E k \in inflight' \ inflight : k.ref = t.ref /\ k.stage = "snapshot"]_vars

\* the user of chat 1 was removed in this step, while the reminder of chat 1
\* is in the Map and in the file with its timer armed
C39_Witness ==
    /\ sent = {[to |-> ADMIN_USER_ID, kind |-> "User Removed"]}
    /\ ~Includes(GetAuthorizedUsers(currentConfig), 1)
    /\ \E t \in timers :
          /\ heap[t.ref].chatId = 1
          /\ heap[t.ref].isActive
          /\ heap[t.ref].id \in MapIds
          /\ heap[t.ref].id \in StoredActiveIds
          /\ reminderIntervals[heap[t.ref].id] = t.handle

-----------------------------------------------------------------------------
(* Updates and deletions of one rule *)

\* an id no stored rule has: that of a rule deleted earlier
UnknownRuleId == <<0, "a">>

\* the ids a caller may pass
CallerRuleIds == StoredRuleIds \cup {UnknownRuleId}

FrameNext ==
    \/ Startup
    \/ \E rule \in RuleInputs, random \in Randoms : AddRule(rule, random)
    \/ \E id \in CallerRuleIds, updates \in UpdateInputs : UpdateRule(id, updates)
    \/ \E id \in CallerRuleIds : DeleteRule(id)
    \/ Tick

FrameSpec == RuleInit /\ [][FrameNext]_vars

\* new is old with the fields of updates set in the rule at position index
UpdatedAt(old, new, index, updates) ==
    /\ Len(new) = Len(old)
    /\ \A i \in DOMAIN old : i # index => new[i] = old[i]
    /\ DOMAIN new[index] = DOMAIN old[index] \cup DOMAIN updates
    /\ \A key \in DOMAIN updates : new[index][key] = updates[key]
    /\ \A key \in DOMAIN old[index] \ DOMAIN updates : new[index][key] = old[index][key]

\* C40: updateAlertRule(id, updates) sets the fields of updates in the rule
\* with that id and leaves the number, the order and every other rule as they
\* were, in memory and in the file; with an id no stored rule has,
\* updateAlertRule leaves the file as it is and deleteAlertRule leaves the
\* stored rules as they are.
C40_UpdateChangesOneRule ==
    [][/\ \A id \in CallerRuleIds, updates \in UpdateInputs :
             UpdateRule(id, updates)
                => LET old == AlertRulesOf(disk)
                       index == CHOOSE i \in DOMAIN old \cup {0} :
                                   /\ i # 0 => old[i].id = id
                                   /\ \A j \in DOMAIN old : old[j].id = id => i # 0 /\ i <= j
                   IN IF index = 0
                      THEN disk' = disk
                      ELSE /\ UpdatedAt(old, AlertRulesOf(disk'), index, updates)
                           /\ AlertRulesOf(currentConfig') = AlertRulesOf(disk')
       /\ \A id \in CallerRuleIds :
             (DeleteRule(id) /\ id \notin StoredRuleIds)
                => /\ AlertRulesOf(disk') = AlertRulesOf(disk)
                   /\ AlertRulesOf(currentConfig') = AlertRulesOf(disk)]_vars

\* two rules are stored: the first was updated (it is disabled), the second
\* is as it was added
C40_Witness ==
    /\ Len(AlertRulesOf(disk)) = 2
    /\ ~AlertRulesOf(disk)[1].enabled
    /\ AlertRulesOf(disk)[2].enabled
    /\ AlertRulesOf(currentConfig) = AlertRulesOf(disk)

====
